---- MODULE Spec2Model ----
(***************************************************************************)
(* The e-mail validation pipeline of CSV-API: validateEmailsInCsv in its   *)
(* single-file variant (email-validator.service.ts) and its split-file     *)
(* variant (the earlier revision of the same file), the worker that calls  *)
(* the verification service, and the stores the pipeline reads and writes  *)
(* (users, files, blobs).                                                  *)
(*                                                                         *)
(* A text is a sequence of one-character strings, so that trim(),          *)
(* toLowerCase() and includes() are computed, not assumed.  A table (a     *)
(* CSV blob) is the sequence of its lines, a line the sequence of its      *)
(* fields; no field of the input pools holds a delimiter, a quote or a     *)
(* line break, so join(',') / parse keep the fields apart as they are.     *)
(***************************************************************************)
EXTENDS Integers, Sequences, FiniteSets, TLC

(***************************************************************************)
(* Bounds of the model.                                                    *)
(***************************************************************************)
\* longest input file (data rows) over the small address pool
MaxRows == 5
\* longest input file (data rows) over the full address pool
MaxShortRows == 2
\* largest initial credit balance
MaxCredits == 2
\* largest totalEmails a request declares
MaxTotal == 3
\* data rows of the input files that have a third column
MaxWideRows == 2
\* longest header validateEmailColumn is called with on its own
MaxHeaders == 2
\* most data rows of a table processAndStoreCSV is called with on its own
MaxUnitRows == 2
\* longest chunk a worker thread is started on, on its own
MaxChunk == 3
\* most data rows of a table previewCSV is called with
MaxPreviewRows == 3

(***************************************************************************)
(* Program constants.                                                      *)
(***************************************************************************)
MAX_WORKERS == 4
MAX_RETRIES == 3
\* defaultJobOptions.attempts of the queue (queue.maxAttempts, default 3)
maxAttempts == 3
\* for (let i = 0; i < 3; i++) of uploadWithRetry
UPLOAD_ATTEMPTS == 3

(***************************************************************************)
(* Texts.                                                                  *)
(***************************************************************************)
S_null == <<"n", "u", "l", "l">>
S_undefined == <<"u", "n", "d", "e", "f", "i", "n", "e", "d">>
S_email == <<"e", "m", "a", "i", "l">>
S_valid == <<"v", "a", "l", "i", "d">>
S_invalid == <<"i", "n", "v", "a", "l", "i", "d">>
S_unknown == <<"u", "n", "k", "n", "o", "w", "n">>
S_error == <<"e", "r", "r", "o", "r">>
S_Email == <<"E", "m", "a", "i", "l">>
S_Email_Validation == <<"E", "m", "a", "i", "l", "_", "V", "a", "l", "i", "d", "a", "t", "i", "o", "n">>

\* White space of String.prototype.trim and of \s in a regular expression,
\* among the characters a string of this module can hold: tab, line feed,
\* vertical tab, form feed, carriage return, space, no-break space, the
\* Ogham space mark U+1680 and the byte order mark U+FEFF.
IsSpace(c) == c \in {" ", "\t", "\n", "\f", "\r", "", " ", " ", "﻿"}

\* The alphabet of the model is the characters a string of this module can
\* hold: those up to U+00FF (without the grave accent) and, beyond, those of
\* the Basic Multilingual Plane whose code has a low byte of 80 or more.  A
\* character outside the alphabet that lower-casing produces is written by
\* its code, as in "U+0253".  The tables follow the Unicode Character
\* Database, version 17.0.
\* The letters of the alphabet that lower-casing changes, in code order ...
Capitals ==
    <<"A", "B", "C", "D", "E", "F", "G", "H", "I", "J", "K", "L", "M", "N", "O", "P",
      "Q", "R", "S", "T", "U", "V", "W", "X", "Y", "Z", "À", "Á", "Â", "Ã", "Ä", "Å",
      "Æ", "Ç", "È", "É", "Ê", "Ë", "Ì", "Í", "Î", "Ï", "Ð", "Ñ", "Ò", "Ó", "Ô", "Õ",
      "Ö", "Ø", "Ù", "Ú", "Û", "Ü", "Ý", "Þ", "Ɓ", "Ƃ", "Ƅ", "Ɔ", "Ƈ", "Ɖ", "Ɗ", "Ƌ",
      "Ǝ", "Ə", "Ɛ", "Ƒ", "Ɠ", "Ɣ", "Ɩ", "Ɨ", "Ƙ", "Ɯ", "Ɲ", "Ɵ", "Ơ", "Ƣ", "Ƥ", "Ʀ",
      "Ƨ", "Ʃ", "Ƭ", "Ʈ", "Ư", "Ʊ", "Ʋ", "Ƴ", "Ƶ", "Ʒ", "Ƹ", "Ƽ", "Ǆ", "ǅ", "Ǉ", "ǈ",
      "Ǌ", "ǋ", "Ǎ", "Ǐ", "Ǒ", "Ǔ", "Ǖ", "Ǘ", "Ǚ", "Ǜ", "Ǟ", "Ǡ", "Ǣ", "Ǥ", "Ǧ", "Ǩ",
      "Ǫ", "Ǭ", "Ǯ", "Ǳ", "ǲ", "Ǵ", "Ƕ", "Ƿ", "Ǹ", "Ǻ", "Ǽ", "Ǿ", "Ά", "Έ", "Ή", "Ί",
      "Ό", "Ύ", "Ώ", "Α", "Β", "Γ", "Δ", "Ε", "Ζ", "Η", "Θ", "Ι", "Κ", "Λ", "Μ", "Ν",
      "Ξ", "Ο", "Π", "Ρ", "Σ", "Τ", "Υ", "Φ", "Χ", "Ψ", "Ω", "Ϊ", "Ϋ", "Ϗ", "Ϙ", "Ϛ",
      "Ϝ", "Ϟ", "Ϡ", "Ϣ", "Ϥ", "Ϧ", "Ϩ", "Ϫ", "Ϭ", "Ϯ", "ϴ", "Ϸ", "Ϲ", "Ϻ", "Ͻ", "Ͼ",
      "Ͽ", "Ҁ", "Ҋ", "Ҍ", "Ҏ", "Ґ", "Ғ", "Ҕ", "Җ", "Ҙ", "Қ", "Ҝ", "Ҟ", "Ҡ", "Ң", "Ҥ",
      "Ҧ", "Ҩ", "Ҫ", "Ҭ", "Ү", "Ұ", "Ҳ", "Ҵ", "Ҷ", "Ҹ", "Һ", "Ҽ", "Ҿ", "Ӏ", "Ӂ", "Ӄ",
      "Ӆ", "Ӈ", "Ӊ", "Ӌ", "Ӎ", "Ӑ", "Ӓ", "Ӕ", "Ӗ", "Ә", "Ӛ", "Ӝ", "Ӟ", "Ӡ", "Ӣ", "Ӥ",
      "Ӧ", "Ө", "Ӫ", "Ӭ", "Ӯ", "Ӱ", "Ӳ", "Ӵ", "Ӷ", "Ӹ", "Ӻ", "Ӽ", "Ӿ", "Ⴀ", "Ⴁ", "Ⴂ",
      "Ⴃ", "Ⴄ", "Ⴅ", "Ⴆ", "Ⴇ", "Ⴈ", "Ⴉ", "Ⴊ", "Ⴋ", "Ⴌ", "Ⴍ", "Ⴎ", "Ⴏ", "Ⴐ", "Ⴑ", "Ⴒ",
      "Ⴓ", "Ⴔ", "Ⴕ", "Ⴖ", "Ⴗ", "Ⴘ", "Ⴙ", "Ⴚ", "Ⴛ", "Ⴜ", "Ⴝ", "Ⴞ", "Ⴟ", "Ⴠ", "Ⴡ", "Ⴢ",
      "Ⴣ", "Ⴤ", "Ⴥ", "Ⴧ", "Ⴭ", "Ꭰ", "Ꭱ", "Ꭲ", "Ꭳ", "Ꭴ", "Ꭵ", "Ꭶ", "Ꭷ", "Ꭸ", "Ꭹ", "Ꭺ",
      "Ꭻ", "Ꭼ", "Ꭽ", "Ꭾ", "Ꭿ", "Ꮀ", "Ꮁ", "Ꮂ", "Ꮃ", "Ꮄ", "Ꮅ", "Ꮆ", "Ꮇ", "Ꮈ", "Ꮉ", "Ꮊ",
      "Ꮋ", "Ꮌ", "Ꮍ", "Ꮎ", "Ꮏ", "Ꮐ", "Ꮑ", "Ꮒ", "Ꮓ", "Ꮔ", "Ꮕ", "Ꮖ", "Ꮗ", "Ꮘ", "Ꮙ", "Ꮚ",
      "Ꮛ", "Ꮜ", "Ꮝ", "Ꮞ", "Ꮟ", "Ꮠ", "Ꮡ", "Ꮢ", "Ꮣ", "Ꮤ", "Ꮥ", "Ꮦ", "Ꮧ", "Ꮨ", "Ꮩ", "Ꮪ",
      "Ꮫ", "Ꮬ", "Ꮭ", "Ꮮ", "Ꮯ", "Ꮰ", "Ꮱ", "Ꮲ", "Ꮳ", "Ꮴ", "Ꮵ", "Ꮶ", "Ꮷ", "Ꮸ", "Ꮹ", "Ꮺ",
      "Ꮻ", "Ꮼ", "Ꮽ", "Ꮾ", "Ꮿ", "Ᏸ", "Ᏹ", "Ᏺ", "Ᏻ", "Ᏼ", "Ᏽ", "Ᲊ", "Ა", "Ბ", "Გ", "Დ",
      "Ე", "Ვ", "Ზ", "Თ", "Ი", "Კ", "Ლ", "Მ", "Ნ", "Ო", "Პ", "Ჟ", "Რ", "Ს", "Ტ", "Უ",
      "Ფ", "Ქ", "Ღ", "Ყ", "Შ", "Ჩ", "Ც", "Ძ", "Წ", "Ჭ", "Ხ", "Ჯ", "Ჰ", "Ჱ", "Ჲ", "Ჳ",
      "Ჴ", "Ჵ", "Ჶ", "Ჷ", "Ჸ", "Ჹ", "Ჺ", "Ჽ", "Ჾ", "Ჿ", "Ẁ", "Ẃ", "Ẅ", "Ẇ", "Ẉ", "Ẋ",
      "Ẍ", "Ẏ", "Ẑ", "Ẓ", "Ẕ", "ẞ", "Ạ", "Ả", "Ấ", "Ầ", "Ẩ", "Ẫ", "Ậ", "Ắ", "Ằ", "Ẳ",
      "Ẵ", "Ặ", "Ẹ", "Ẻ", "Ẽ", "Ế", "Ề", "Ể", "Ễ", "Ệ", "Ỉ", "Ị", "Ọ", "Ỏ", "Ố", "Ồ",
      "Ổ", "Ỗ", "Ộ", "Ớ", "Ờ", "Ở", "Ỡ", "Ợ", "Ụ", "Ủ", "Ứ", "Ừ", "Ử", "Ữ", "Ự", "Ỳ",
      "Ỵ", "Ỷ", "Ỹ", "Ỻ", "Ỽ", "Ỿ", "ᾈ", "ᾉ", "ᾊ", "ᾋ", "ᾌ", "ᾍ", "ᾎ", "ᾏ", "ᾘ", "ᾙ",
      "ᾚ", "ᾛ", "ᾜ", "ᾝ", "ᾞ", "ᾟ", "ᾨ", "ᾩ", "ᾪ", "ᾫ", "ᾬ", "ᾭ", "ᾮ", "ᾯ", "Ᾰ", "Ᾱ",
      "Ὰ", "Ά", "ᾼ", "Ὲ", "Έ", "Ὴ", "Ή", "ῌ", "Ῐ", "Ῑ", "Ὶ", "Ί", "Ῠ", "Ῡ", "Ὺ", "Ύ",
      "Ῥ", "Ὸ", "Ό", "Ὼ", "Ώ", "ῼ", "Ↄ", "Ⓐ", "Ⓑ", "Ⓒ", "Ⓓ", "Ⓔ", "Ⓕ", "Ⓖ", "Ⓗ", "Ⓘ",
      "Ⓙ", "Ⓚ", "Ⓛ", "Ⓜ", "Ⓝ", "Ⓞ", "Ⓟ", "Ⓠ", "Ⓡ", "Ⓢ", "Ⓣ", "Ⓤ", "Ⓥ", "Ⓦ", "Ⓧ", "Ⓨ",
      "Ⓩ", "Ⲁ", "Ⲃ", "Ⲅ", "Ⲇ", "Ⲉ", "Ⲋ", "Ⲍ", "Ⲏ", "Ⲑ", "Ⲓ", "Ⲕ", "Ⲗ", "Ⲙ", "Ⲛ", "Ⲝ",
      "Ⲟ", "Ⲡ", "Ⲣ", "Ⲥ", "Ⲧ", "Ⲩ", "Ⲫ", "Ⲭ", "Ⲯ", "Ⲱ", "Ⲳ", "Ⲵ", "Ⲷ", "Ⲹ", "Ⲻ", "Ⲽ",
      "Ⲿ", "Ⳁ", "Ⳃ", "Ⳅ", "Ⳇ", "Ⳉ", "Ⳋ", "Ⳍ", "Ⳏ", "Ⳑ", "Ⳓ", "Ⳕ", "Ⳗ", "Ⳙ", "Ⳛ", "Ⳝ",
      "Ⳟ", "Ⳡ", "Ⳣ", "Ⳬ", "Ⳮ", "Ⳳ", "Ꚁ", "Ꚃ", "Ꚅ", "Ꚇ", "Ꚉ", "Ꚋ", "Ꚍ", "Ꚏ", "Ꚑ", "Ꚓ",
      "Ꚕ", "Ꚗ", "Ꚙ", "Ꚛ", "Ꞁ", "Ꞃ", "Ꞅ", "Ꞇ", "Ꞌ", "Ɥ", "Ꞑ", "Ꞓ", "Ꞗ", "Ꞙ", "Ꞛ", "Ꞝ",
      "Ꞟ", "Ꞡ", "Ꞣ", "Ꞥ", "Ꞧ", "Ꞩ", "Ɦ", "Ɜ", "Ɡ", "Ɬ", "Ɪ", "Ʞ", "Ʇ", "Ʝ", "Ꭓ", "Ꞵ",
      "Ꞷ", "Ꞹ", "Ꞻ", "Ꞽ", "Ꞿ", "Ꟁ", "Ꟃ", "Ꞔ", "Ʂ", "Ᶎ", "Ꟈ", "Ꟊ", "Ɤ", "Ꟍ", "꟎", "Ꟑ",
      "꟒", "꟔", "Ꟗ", "Ꟙ", "Ꟛ", "Ƛ", "Ꟶ">>

\* ... and, at the same position, the letter String.prototype.toLowerCase
\* makes of each
Smalls ==
    <<"a", "b", "c", "d", "e", "f", "g", "h", "i", "j", "k", "l", "m", "n", "o", "p",
      "q", "r", "s", "t", "u", "v", "w", "x", "y", "z", "à", "á", "â", "ã", "ä", "å",
      "æ", "ç", "è", "é", "ê", "ë", "ì", "í", "î", "ï", "ð", "ñ", "ò", "ó", "ô", "õ",
      "ö", "ø", "ù", "ú", "û", "ü", "ý", "þ", "U+0253", "ƃ", "ƅ", "U+0254", "ƈ", "U+0256", "U+0257", "ƌ",
      "ǝ", "U+0259", "U+025B", "ƒ", "U+0260", "U+0263", "U+0269", "U+0268", "ƙ", "U+026F", "U+0272", "U+0275", "ơ", "ƣ", "ƥ", "ʀ",
      "ƨ", "ʃ", "ƭ", "ʈ", "ư", "ʊ", "ʋ", "ƴ", "ƶ", "ʒ", "ƹ", "ƽ", "ǆ", "ǆ", "ǉ", "ǉ",
      "ǌ", "ǌ", "ǎ", "ǐ", "ǒ", "ǔ", "ǖ", "ǘ", "ǚ", "ǜ", "ǟ", "ǡ", "ǣ", "ǥ", "ǧ", "ǩ",
      "ǫ", "ǭ", "ǯ", "ǳ", "ǳ", "ǵ", "ƕ", "ƿ", "ǹ", "ǻ", "ǽ", "ǿ", "ά", "έ", "ή", "ί",
      "ό", "ύ", "ώ", "α", "β", "γ", "δ", "ε", "ζ", "η", "θ", "ι", "κ", "λ", "μ", "ν",
      "ξ", "ο", "π", "ρ", "σ", "τ", "υ", "φ", "χ", "ψ", "ω", "ϊ", "ϋ", "ϗ", "ϙ", "ϛ",
      "ϝ", "ϟ", "ϡ", "ϣ", "ϥ", "ϧ", "ϩ", "ϫ", "ϭ", "ϯ", "θ", "ϸ", "ϲ", "ϻ", "U+037B", "U+037C",
      "U+037D", "ҁ", "ҋ", "ҍ", "ҏ", "ґ", "ғ", "ҕ", "җ", "ҙ", "қ", "ҝ", "ҟ", "ҡ", "ң", "ҥ",
      "ҧ", "ҩ", "ҫ", "ҭ", "ү", "ұ", "ҳ", "ҵ", "ҷ", "ҹ", "һ", "ҽ", "ҿ", "ӏ", "ӂ", "ӄ",
      "ӆ", "ӈ", "ӊ", "ӌ", "ӎ", "ӑ", "ӓ", "ӕ", "ӗ", "ә", "ӛ", "ӝ", "ӟ", "ӡ", "ӣ", "ӥ",
      "ӧ", "ө", "ӫ", "ӭ", "ӯ", "ӱ", "ӳ", "ӵ", "ӷ", "ӹ", "ӻ", "ӽ", "ӿ", "U+2D00", "U+2D01", "U+2D02",
      "U+2D03", "U+2D04", "U+2D05", "U+2D06", "U+2D07", "U+2D08", "U+2D09", "U+2D0A", "U+2D0B", "U+2D0C", "U+2D0D", "U+2D0E", "U+2D0F", "U+2D10", "U+2D11", "U+2D12",
      "U+2D13", "U+2D14", "U+2D15", "U+2D16", "U+2D17", "U+2D18", "U+2D19", "U+2D1A", "U+2D1B", "U+2D1C", "U+2D1D", "U+2D1E", "U+2D1F", "U+2D20", "U+2D21", "U+2D22",
      "U+2D23", "U+2D24", "U+2D25", "U+2D27", "U+2D2D", "U+AB70", "U+AB71", "U+AB72", "U+AB73", "U+AB74", "U+AB75", "U+AB76", "U+AB77", "U+AB78", "U+AB79", "U+AB7A",
      "U+AB7B", "U+AB7C", "U+AB7D", "U+AB7E", "U+AB7F", "ꮀ", "ꮁ", "ꮂ", "ꮃ", "ꮄ", "ꮅ", "ꮆ", "ꮇ", "ꮈ", "ꮉ", "ꮊ",
      "ꮋ", "ꮌ", "ꮍ", "ꮎ", "ꮏ", "ꮐ", "ꮑ", "ꮒ", "ꮓ", "ꮔ", "ꮕ", "ꮖ", "ꮗ", "ꮘ", "ꮙ", "ꮚ",
      "ꮛ", "ꮜ", "ꮝ", "ꮞ", "ꮟ", "ꮠ", "ꮡ", "ꮢ", "ꮣ", "ꮤ", "ꮥ", "ꮦ", "ꮧ", "ꮨ", "ꮩ", "ꮪ",
      "ꮫ", "ꮬ", "ꮭ", "ꮮ", "ꮯ", "ꮰ", "ꮱ", "ꮲ", "ꮳ", "ꮴ", "ꮵ", "ꮶ", "ꮷ", "ꮸ", "ꮹ", "ꮺ",
      "ꮻ", "ꮼ", "ꮽ", "ꮾ", "ꮿ", "ᏸ", "ᏹ", "ᏺ", "ᏻ", "ᏼ", "ᏽ", "ᲊ", "ა", "ბ", "გ", "დ",
      "ე", "ვ", "ზ", "თ", "ი", "კ", "ლ", "მ", "ნ", "ო", "პ", "ჟ", "რ", "ს", "ტ", "უ",
      "ფ", "ქ", "ღ", "ყ", "შ", "ჩ", "ც", "ძ", "წ", "ჭ", "ხ", "ჯ", "ჰ", "ჱ", "ჲ", "ჳ",
      "ჴ", "ჵ", "ჶ", "ჷ", "ჸ", "ჹ", "ჺ", "ჽ", "ჾ", "ჿ", "ẁ", "ẃ", "ẅ", "ẇ", "ẉ", "ẋ",
      "ẍ", "ẏ", "ẑ", "ẓ", "ẕ", "ß", "ạ", "ả", "ấ", "ầ", "ẩ", "ẫ", "ậ", "ắ", "ằ", "ẳ",
      "ẵ", "ặ", "ẹ", "ẻ", "ẽ", "ế", "ề", "ể", "ễ", "ệ", "ỉ", "ị", "ọ", "ỏ", "ố", "ồ",
      "ổ", "ỗ", "ộ", "ớ", "ờ", "ở", "ỡ", "ợ", "ụ", "ủ", "ứ", "ừ", "ử", "ữ", "ự", "ỳ",
      "ỵ", "ỷ", "ỹ", "ỻ", "ỽ", "ỿ", "ᾀ", "ᾁ", "ᾂ", "ᾃ", "ᾄ", "ᾅ", "ᾆ", "ᾇ", "ᾐ", "ᾑ",
      "ᾒ", "ᾓ", "ᾔ", "ᾕ", "ᾖ", "ᾗ", "ᾠ", "ᾡ", "ᾢ", "ᾣ", "ᾤ", "ᾥ", "ᾦ", "ᾧ", "ᾰ", "ᾱ",
      "U+1F70", "U+1F71", "ᾳ", "U+1F72", "U+1F73", "U+1F74", "U+1F75", "ῃ", "ῐ", "ῑ", "U+1F76", "U+1F77", "ῠ", "ῡ", "U+1F7A", "U+1F7B",
      "ῥ", "U+1F78", "U+1F79", "U+1F7C", "U+1F7D", "ῳ", "ↄ", "ⓐ", "ⓑ", "ⓒ", "ⓓ", "ⓔ", "ⓕ", "ⓖ", "ⓗ", "ⓘ",
      "ⓙ", "ⓚ", "ⓛ", "ⓜ", "ⓝ", "ⓞ", "ⓟ", "ⓠ", "ⓡ", "ⓢ", "ⓣ", "ⓤ", "ⓥ", "ⓦ", "ⓧ", "ⓨ",
      "ⓩ", "ⲁ", "ⲃ", "ⲅ", "ⲇ", "ⲉ", "ⲋ", "ⲍ", "ⲏ", "ⲑ", "ⲓ", "ⲕ", "ⲗ", "ⲙ", "ⲛ", "ⲝ",
      "ⲟ", "ⲡ", "ⲣ", "ⲥ", "ⲧ", "ⲩ", "ⲫ", "ⲭ", "ⲯ", "ⲱ", "ⲳ", "ⲵ", "ⲷ", "ⲹ", "ⲻ", "ⲽ",
      "ⲿ", "ⳁ", "ⳃ", "ⳅ", "ⳇ", "ⳉ", "ⳋ", "ⳍ", "ⳏ", "ⳑ", "ⳓ", "ⳕ", "ⳗ", "ⳙ", "ⳛ", "ⳝ",
      "ⳟ", "ⳡ", "ⳣ", "ⳬ", "ⳮ", "ⳳ", "ꚁ", "ꚃ", "ꚅ", "ꚇ", "ꚉ", "ꚋ", "ꚍ", "ꚏ", "ꚑ", "ꚓ",
      "ꚕ", "ꚗ", "ꚙ", "ꚛ", "ꞁ", "ꞃ", "ꞅ", "ꞇ", "ꞌ", "U+0265", "ꞑ", "ꞓ", "ꞗ", "ꞙ", "ꞛ", "ꞝ",
      "ꞟ", "ꞡ", "ꞣ", "ꞥ", "ꞧ", "ꞩ", "U+0266", "U+025C", "U+0261", "U+026C", "U+026A", "ʞ", "ʇ", "ʝ", "U+AB53", "ꞵ",
      "ꞷ", "ꞹ", "ꞻ", "ꞽ", "ꞿ", "ꟁ", "ꟃ", "ꞔ", "ʂ", "ᶎ", "ꟈ", "ꟊ", "U+0264", "ꟍ", "꟏", "ꟑ",
      "ꟓ", "ꟕ", "ꟗ", "ꟙ", "ꟛ", "ƛ", "ꟶ">>

CapitalSet == {Capitals[i] : i \in 1..Len(Capitals)}

\* the cased letters of the alphabet (Unicode property Cased)
Cased ==
    {"A", "B", "C", "D", "E", "F", "G", "H", "I", "J", "K", "L", "M", "N", "O", "P",
      "Q", "R", "S", "T", "U", "V", "W", "X", "Y", "Z", "a", "b", "c", "d", "e", "f",
      "g", "h", "i", "j", "k", "l", "m", "n", "o", "p", "q", "r", "s", "t", "u", "v",
      "w", "x", "y", "z", "ª", "µ", "º", "À", "Á", "Â", "Ã", "Ä", "Å", "Æ", "Ç", "È",
      "É", "Ê", "Ë", "Ì", "Í", "Î", "Ï", "Ð", "Ñ", "Ò", "Ó", "Ô", "Õ", "Ö", "Ø", "Ù",
      "Ú", "Û", "Ü", "Ý", "Þ", "ß", "à", "á", "â", "ã", "ä", "å", "æ", "ç", "è", "é",
      "ê", "ë", "ì", "í", "î", "ï", "ð", "ñ", "ò", "ó", "ô", "õ", "ö", "ø", "ù", "ú",
      "û", "ü", "ý", "þ", "ÿ", "ƀ", "Ɓ", "Ƃ", "ƃ", "Ƅ", "ƅ", "Ɔ", "Ƈ", "ƈ", "Ɖ", "Ɗ",
      "Ƌ", "ƌ", "ƍ", "Ǝ", "Ə", "Ɛ", "Ƒ", "ƒ", "Ɠ", "Ɣ", "ƕ", "Ɩ", "Ɨ", "Ƙ", "ƙ", "ƚ",
      "ƛ", "Ɯ", "Ɲ", "ƞ", "Ɵ", "Ơ", "ơ", "Ƣ", "ƣ", "Ƥ", "ƥ", "Ʀ", "Ƨ", "ƨ", "Ʃ", "ƪ",
      "ƫ", "Ƭ", "ƭ", "Ʈ", "Ư", "ư", "Ʊ", "Ʋ", "Ƴ", "ƴ", "Ƶ", "ƶ", "Ʒ", "Ƹ", "ƹ", "ƺ",
      "Ƽ", "ƽ", "ƾ", "ƿ", "Ǆ", "ǅ", "ǆ", "Ǉ", "ǈ", "ǉ", "Ǌ", "ǋ", "ǌ", "Ǎ", "ǎ", "Ǐ",
      "ǐ", "Ǒ", "ǒ", "Ǔ", "ǔ", "Ǖ", "ǖ", "Ǘ", "ǘ", "Ǚ", "ǚ", "Ǜ", "ǜ", "ǝ", "Ǟ", "ǟ",
      "Ǡ", "ǡ", "Ǣ", "ǣ", "Ǥ", "ǥ", "Ǧ", "ǧ", "Ǩ", "ǩ", "Ǫ", "ǫ", "Ǭ", "ǭ", "Ǯ", "ǯ",
      "ǰ", "Ǳ", "ǲ", "ǳ", "Ǵ", "ǵ", "Ƕ", "Ƿ", "Ǹ", "ǹ", "Ǻ", "ǻ", "Ǽ", "ǽ", "Ǿ", "ǿ",
      "ʀ", "ʁ", "ʂ", "ʃ", "ʄ", "ʅ", "ʆ", "ʇ", "ʈ", "ʉ", "ʊ", "ʋ", "ʌ", "ʍ", "ʎ", "ʏ",
      "ʐ", "ʑ", "ʒ", "ʓ", "ʖ", "ʗ", "ʘ", "ʙ", "ʚ", "ʛ", "ʜ", "ʝ", "ʞ", "ʟ", "ʠ", "ʡ",
      "ʢ", "ʣ", "ʤ", "ʥ", "ʦ", "ʧ", "ʨ", "ʩ", "ʪ", "ʫ", "ʬ", "ʭ", "ʮ", "ʯ", "ʰ", "ʱ",
      "ʲ", "ʳ", "ʴ", "ʵ", "ʶ", "ʷ", "ʸ", "ˀ", "ˁ", "ˠ", "ˡ", "ˢ", "ˣ", "ˤ", "Ά", "Έ",
      "Ή", "Ί", "Ό", "Ύ", "Ώ", "ΐ", "Α", "Β", "Γ", "Δ", "Ε", "Ζ", "Η", "Θ", "Ι", "Κ",
      "Λ", "Μ", "Ν", "Ξ", "Ο", "Π", "Ρ", "Σ", "Τ", "Υ", "Φ", "Χ", "Ψ", "Ω", "Ϊ", "Ϋ",
      "ά", "έ", "ή", "ί", "ΰ", "α", "β", "γ", "δ", "ε", "ζ", "η", "θ", "ι", "κ", "λ",
      "μ", "ν", "ξ", "ο", "π", "ρ", "ς", "σ", "τ", "υ", "φ", "χ", "ψ", "ω", "ϊ", "ϋ",
      "ό", "ύ", "ώ", "Ϗ", "ϐ", "ϑ", "ϒ", "ϓ", "ϔ", "ϕ", "ϖ", "ϗ", "Ϙ", "ϙ", "Ϛ", "ϛ",
      "Ϝ", "ϝ", "Ϟ", "ϟ", "Ϡ", "ϡ", "Ϣ", "ϣ", "Ϥ", "ϥ", "Ϧ", "ϧ", "Ϩ", "ϩ", "Ϫ", "ϫ",
      "Ϭ", "ϭ", "Ϯ", "ϯ", "ϰ", "ϱ", "ϲ", "ϳ", "ϴ", "ϵ", "Ϸ", "ϸ", "Ϲ", "Ϻ", "ϻ", "ϼ",
      "Ͻ", "Ͼ", "Ͽ", "Ҁ", "ҁ", "Ҋ", "ҋ", "Ҍ", "ҍ", "Ҏ", "ҏ", "Ґ", "ґ", "Ғ", "ғ", "Ҕ",
      "ҕ", "Җ", "җ", "Ҙ", "ҙ", "Қ", "қ", "Ҝ", "ҝ", "Ҟ", "ҟ", "Ҡ", "ҡ", "Ң", "ң", "Ҥ",
      "ҥ", "Ҧ", "ҧ", "Ҩ", "ҩ", "Ҫ", "ҫ", "Ҭ", "ҭ", "Ү", "ү", "Ұ", "ұ", "Ҳ", "ҳ", "Ҵ",
      "ҵ", "Ҷ", "ҷ", "Ҹ", "ҹ", "Һ", "һ", "Ҽ", "ҽ", "Ҿ", "ҿ", "Ӏ", "Ӂ", "ӂ", "Ӄ", "ӄ",
      "Ӆ", "ӆ", "Ӈ", "ӈ", "Ӊ", "ӊ", "Ӌ", "ӌ", "Ӎ", "ӎ", "ӏ", "Ӑ", "ӑ", "Ӓ", "ӓ", "Ӕ",
      "ӕ", "Ӗ", "ӗ", "Ә", "ә", "Ӛ", "ӛ", "Ӝ", "ӝ", "Ӟ", "ӟ", "Ӡ", "ӡ", "Ӣ", "ӣ", "Ӥ",
      "ӥ", "Ӧ", "ӧ", "Ө", "ө", "Ӫ", "ӫ", "Ӭ", "ӭ", "Ӯ", "ӯ", "Ӱ", "ӱ", "Ӳ", "ӳ", "Ӵ",
      "ӵ", "Ӷ", "ӷ", "Ӹ", "ӹ", "Ӻ", "ӻ", "Ӽ", "ӽ", "Ӿ", "ӿ", "ր", "ց", "ւ", "փ", "ք",
      "օ", "ֆ", "և", "ֈ", "Ⴀ", "Ⴁ", "Ⴂ", "Ⴃ", "Ⴄ", "Ⴅ", "Ⴆ", "Ⴇ", "Ⴈ", "Ⴉ", "Ⴊ", "Ⴋ",
      "Ⴌ", "Ⴍ", "Ⴎ", "Ⴏ", "Ⴐ", "Ⴑ", "Ⴒ", "Ⴓ", "Ⴔ", "Ⴕ", "Ⴖ", "Ⴗ", "Ⴘ", "Ⴙ", "Ⴚ", "Ⴛ",
      "Ⴜ", "Ⴝ", "Ⴞ", "Ⴟ", "Ⴠ", "Ⴡ", "Ⴢ", "Ⴣ", "Ⴤ", "Ⴥ", "Ⴧ", "Ⴭ", "ა", "ბ", "გ", "დ",
      "ე", "ვ", "ზ", "თ", "ი", "კ", "ლ", "მ", "ნ", "ო", "პ", "ჟ", "რ", "ს", "ტ", "უ",
      "ფ", "ქ", "ღ", "ყ", "შ", "ჩ", "ც", "ძ", "წ", "ჭ", "ხ", "ჯ", "ჰ", "ჱ", "ჲ", "ჳ",
      "ჴ", "ჵ", "ჶ", "ჷ", "ჸ", "ჹ", "ჺ", "ჼ", "ჽ", "ჾ", "ჿ", "Ꭰ", "Ꭱ", "Ꭲ", "Ꭳ", "Ꭴ",
      "Ꭵ", "Ꭶ", "Ꭷ", "Ꭸ", "Ꭹ", "Ꭺ", "Ꭻ", "Ꭼ", "Ꭽ", "Ꭾ", "Ꭿ", "Ꮀ", "Ꮁ", "Ꮂ", "Ꮃ", "Ꮄ",
      "Ꮅ", "Ꮆ", "Ꮇ", "Ꮈ", "Ꮉ", "Ꮊ", "Ꮋ", "Ꮌ", "Ꮍ", "Ꮎ", "Ꮏ", "Ꮐ", "Ꮑ", "Ꮒ", "Ꮓ", "Ꮔ",
      "Ꮕ", "Ꮖ", "Ꮗ", "Ꮘ", "Ꮙ", "Ꮚ", "Ꮛ", "Ꮜ", "Ꮝ", "Ꮞ", "Ꮟ", "Ꮠ", "Ꮡ", "Ꮢ", "Ꮣ", "Ꮤ",
      "Ꮥ", "Ꮦ", "Ꮧ", "Ꮨ", "Ꮩ", "Ꮪ", "Ꮫ", "Ꮬ", "Ꮭ", "Ꮮ", "Ꮯ", "Ꮰ", "Ꮱ", "Ꮲ", "Ꮳ", "Ꮴ",
      "Ꮵ", "Ꮶ", "Ꮷ", "Ꮸ", "Ꮹ", "Ꮺ", "Ꮻ", "Ꮼ", "Ꮽ", "Ꮾ", "Ꮿ", "Ᏸ", "Ᏹ", "Ᏺ", "Ᏻ", "Ᏼ",
      "Ᏽ", "ᏸ", "ᏹ", "ᏺ", "ᏻ", "ᏼ", "ᏽ", "ᲀ", "ᲁ", "ᲂ", "ᲃ", "ᲄ", "ᲅ", "ᲆ", "ᲇ", "ᲈ",
      "Ᲊ", "ᲊ", "Ა", "Ბ", "Გ", "Დ", "Ე", "Ვ", "Ზ", "Თ", "Ი", "Კ", "Ლ", "Მ", "Ნ", "Ო",
      "Პ", "Ჟ", "Რ", "Ს", "Ტ", "Უ", "Ფ", "Ქ", "Ღ", "Ყ", "Შ", "Ჩ", "Ც", "Ძ", "Წ", "Ჭ",
      "Ხ", "Ჯ", "Ჰ", "Ჱ", "Ჲ", "Ჳ", "Ჴ", "Ჵ", "Ჶ", "Ჷ", "Ჸ", "Ჹ", "Ჺ", "Ჽ", "Ჾ", "Ჿ",
      "ᶀ", "ᶁ", "ᶂ", "ᶃ", "ᶄ", "ᶅ", "ᶆ", "ᶇ", "ᶈ", "ᶉ", "ᶊ", "ᶋ", "ᶌ", "ᶍ", "ᶎ", "ᶏ",
      "ᶐ", "ᶑ", "ᶒ", "ᶓ", "ᶔ", "ᶕ", "ᶖ", "ᶗ", "ᶘ", "ᶙ", "ᶚ", "ᶛ", "ᶜ", "ᶝ", "ᶞ", "ᶟ",
      "ᶠ", "ᶡ", "ᶢ", "ᶣ", "ᶤ", "ᶥ", "ᶦ", "ᶧ", "ᶨ", "ᶩ", "ᶪ", "ᶫ", "ᶬ", "ᶭ", "ᶮ", "ᶯ",
      "ᶰ", "ᶱ", "ᶲ", "ᶳ", "ᶴ", "ᶵ", "ᶶ", "ᶷ", "ᶸ", "ᶹ", "ᶺ", "ᶻ", "ᶼ", "ᶽ", "ᶾ", "ᶿ",
      "Ẁ", "ẁ", "Ẃ", "ẃ", "Ẅ", "ẅ", "Ẇ", "ẇ", "Ẉ", "ẉ", "Ẋ", "ẋ", "Ẍ", "ẍ", "Ẏ", "ẏ",
      "Ẑ", "ẑ", "Ẓ", "ẓ", "Ẕ", "ẕ", "ẖ", "ẗ", "ẘ", "ẙ", "ẚ", "ẛ", "ẜ", "ẝ", "ẞ", "ẟ",
      "Ạ", "ạ", "Ả", "ả", "Ấ", "ấ", "Ầ", "ầ", "Ẩ", "ẩ", "Ẫ", "ẫ", "Ậ", "ậ", "Ắ", "ắ",
      "Ằ", "ằ", "Ẳ", "ẳ", "Ẵ", "ẵ", "Ặ", "ặ", "Ẹ", "ẹ", "Ẻ", "ẻ", "Ẽ", "ẽ", "Ế", "ế",
      "Ề", "ề", "Ể", "ể", "Ễ", "ễ", "Ệ", "ệ", "Ỉ", "ỉ", "Ị", "ị", "Ọ", "ọ", "Ỏ", "ỏ",
      "Ố", "ố", "Ồ", "ồ", "Ổ", "ổ", "Ỗ", "ỗ", "Ộ", "ộ", "Ớ", "ớ", "Ờ", "ờ", "Ở", "ở",
      "Ỡ", "ỡ", "Ợ", "ợ", "Ụ", "ụ", "Ủ", "ủ", "Ứ", "ứ", "Ừ", "ừ", "Ử", "ử", "Ữ", "ữ",
      "Ự", "ự", "Ỳ", "ỳ", "Ỵ", "ỵ", "Ỷ", "ỷ", "Ỹ", "ỹ", "Ỻ", "ỻ", "Ỽ", "ỽ", "Ỿ", "ỿ",
      "ᾀ", "ᾁ", "ᾂ", "ᾃ", "ᾄ", "ᾅ", "ᾆ", "ᾇ", "ᾈ", "ᾉ", "ᾊ", "ᾋ", "ᾌ", "ᾍ", "ᾎ", "ᾏ",
      "ᾐ", "ᾑ", "ᾒ", "ᾓ", "ᾔ", "ᾕ", "ᾖ", "ᾗ", "ᾘ", "ᾙ", "ᾚ", "ᾛ", "ᾜ", "ᾝ", "ᾞ", "ᾟ",
      "ᾠ", "ᾡ", "ᾢ", "ᾣ", "ᾤ", "ᾥ", "ᾦ", "ᾧ", "ᾨ", "ᾩ", "ᾪ", "ᾫ", "ᾬ", "ᾭ", "ᾮ", "ᾯ",
      "ᾰ", "ᾱ", "ᾲ", "ᾳ", "ᾴ", "ᾶ", "ᾷ", "Ᾰ", "Ᾱ", "Ὰ", "Ά", "ᾼ", "ι", "ῂ", "ῃ", "ῄ",
      "ῆ", "ῇ", "Ὲ", "Έ", "Ὴ", "Ή", "ῌ", "ῐ", "ῑ", "ῒ", "ΐ", "ῖ", "ῗ", "Ῐ", "Ῑ", "Ὶ",
      "Ί", "ῠ", "ῡ", "ῢ", "ΰ", "ῤ", "ῥ", "ῦ", "ῧ", "Ῠ", "Ῡ", "Ὺ", "Ύ", "Ῥ", "ῲ", "ῳ",
      "ῴ", "ῶ", "ῷ", "Ὸ", "Ό", "Ὼ", "Ώ", "ῼ", "ₐ", "ₑ", "ₒ", "ₓ", "ₔ", "ₕ", "ₖ", "ₗ",
      "ₘ", "ₙ", "ₚ", "ₛ", "ₜ", "Ↄ", "ↄ", "Ⓐ", "Ⓑ", "Ⓒ", "Ⓓ", "Ⓔ", "Ⓕ", "Ⓖ", "Ⓗ", "Ⓘ",
      "Ⓙ", "Ⓚ", "Ⓛ", "Ⓜ", "Ⓝ", "Ⓞ", "Ⓟ", "Ⓠ", "Ⓡ", "Ⓢ", "Ⓣ", "Ⓤ", "Ⓥ", "Ⓦ", "Ⓧ", "Ⓨ",
      "Ⓩ", "ⓐ", "ⓑ", "ⓒ", "ⓓ", "ⓔ", "ⓕ", "ⓖ", "ⓗ", "ⓘ", "ⓙ", "ⓚ", "ⓛ", "ⓜ", "ⓝ", "ⓞ",
      "ⓟ", "ⓠ", "ⓡ", "ⓢ", "ⓣ", "ⓤ", "ⓥ", "ⓦ", "ⓧ", "ⓨ", "ⓩ", "Ⲁ", "ⲁ", "Ⲃ", "ⲃ", "Ⲅ",
      "ⲅ", "Ⲇ", "ⲇ", "Ⲉ", "ⲉ", "Ⲋ", "ⲋ", "Ⲍ", "ⲍ", "Ⲏ", "ⲏ", "Ⲑ", "ⲑ", "Ⲓ", "ⲓ", "Ⲕ",
      "ⲕ", "Ⲗ", "ⲗ", "Ⲙ", "ⲙ", "Ⲛ", "ⲛ", "Ⲝ", "ⲝ", "Ⲟ", "ⲟ", "Ⲡ", "ⲡ", "Ⲣ", "ⲣ", "Ⲥ",
      "ⲥ", "Ⲧ", "ⲧ", "Ⲩ", "ⲩ", "Ⲫ", "ⲫ", "Ⲭ", "ⲭ", "Ⲯ", "ⲯ", "Ⲱ", "ⲱ", "Ⲳ", "ⲳ", "Ⲵ",
      "ⲵ", "Ⲷ", "ⲷ", "Ⲹ", "ⲹ", "Ⲻ", "ⲻ", "Ⲽ", "ⲽ", "Ⲿ", "ⲿ", "Ⳁ", "ⳁ", "Ⳃ", "ⳃ", "Ⳅ",
      "ⳅ", "Ⳇ", "ⳇ", "Ⳉ", "ⳉ", "Ⳋ", "ⳋ", "Ⳍ", "ⳍ", "Ⳏ", "ⳏ", "Ⳑ", "ⳑ", "Ⳓ", "ⳓ", "Ⳕ",
      "ⳕ", "Ⳗ", "ⳗ", "Ⳙ", "ⳙ", "Ⳛ", "ⳛ", "Ⳝ", "ⳝ", "Ⳟ", "ⳟ", "Ⳡ", "ⳡ", "Ⳣ", "ⳣ", "ⳤ",
      "Ⳬ", "ⳬ", "Ⳮ", "ⳮ", "Ⳳ", "ⳳ", "Ꚁ", "ꚁ", "Ꚃ", "ꚃ", "Ꚅ", "ꚅ", "Ꚇ", "ꚇ", "Ꚉ", "ꚉ",
      "Ꚋ", "ꚋ", "Ꚍ", "ꚍ", "Ꚏ", "ꚏ", "Ꚑ", "ꚑ", "Ꚓ", "ꚓ", "Ꚕ", "ꚕ", "Ꚗ", "ꚗ", "Ꚙ", "ꚙ",
      "Ꚛ", "ꚛ", "ꚜ", "ꚝ", "Ꞁ", "ꞁ", "Ꞃ", "ꞃ", "Ꞅ", "ꞅ", "Ꞇ", "ꞇ", "Ꞌ", "ꞌ", "Ɥ", "ꞎ",
      "Ꞑ", "ꞑ", "Ꞓ", "ꞓ", "ꞔ", "ꞕ", "Ꞗ", "ꞗ", "Ꞙ", "ꞙ", "Ꞛ", "ꞛ", "Ꞝ", "ꞝ", "Ꞟ", "ꞟ",
      "Ꞡ", "ꞡ", "Ꞣ", "ꞣ", "Ꞥ", "ꞥ", "Ꞧ", "ꞧ", "Ꞩ", "ꞩ", "Ɦ", "Ɜ", "Ɡ", "Ɬ", "Ɪ", "ꞯ",
      "Ʞ", "Ʇ", "Ʝ", "Ꭓ", "Ꞵ", "ꞵ", "Ꞷ", "ꞷ", "Ꞹ", "ꞹ", "Ꞻ", "ꞻ", "Ꞽ", "ꞽ", "Ꞿ", "ꞿ",
      "Ꟁ", "ꟁ", "Ꟃ", "ꟃ", "Ꞔ", "Ʂ", "Ᶎ", "Ꟈ", "ꟈ", "Ꟊ", "ꟊ", "Ɤ", "Ꟍ", "ꟍ", "꟎", "꟏",
      "Ꟑ", "ꟑ", "꟒", "ꟓ", "꟔", "ꟕ", "Ꟗ", "ꟗ", "Ꟙ", "ꟙ", "Ꟛ", "ꟛ", "Ƛ", "꟱", "ꟲ", "ꟳ",
      "ꟴ", "Ꟶ", "ꟶ", "ꟸ", "ꟹ", "ꟺ", "ꮀ", "ꮁ", "ꮂ", "ꮃ", "ꮄ", "ꮅ", "ꮆ", "ꮇ", "ꮈ", "ꮉ",
      "ꮊ", "ꮋ", "ꮌ", "ꮍ", "ꮎ", "ꮏ", "ꮐ", "ꮑ", "ꮒ", "ꮓ", "ꮔ", "ꮕ", "ꮖ", "ꮗ", "ꮘ", "ꮙ",
      "ꮚ", "ꮛ", "ꮜ", "ꮝ", "ꮞ", "ꮟ", "ꮠ", "ꮡ", "ꮢ", "ꮣ", "ꮤ", "ꮥ", "ꮦ", "ꮧ", "ꮨ", "ꮩ",
      "ꮪ", "ꮫ", "ꮬ", "ꮭ", "ꮮ", "ꮯ", "ꮰ", "ꮱ", "ꮲ", "ꮳ", "ꮴ", "ꮵ", "ꮶ", "ꮷ", "ꮸ", "ꮹ",
      "ꮺ", "ꮻ", "ꮼ", "ꮽ", "ꮾ", "ꮿ"}

\* the characters of the alphabet a cased letter is looked for across
\* (Unicode property Case_Ignorable)
CaseIgnorable ==
    {"'", ".", ":", "^", "¨", "­", "¯", "´", "·", "¸", "ʰ", "ʱ", "ʲ", "ʳ", "ʴ", "ʵ",
      "ʶ", "ʷ", "ʸ", "ʹ", "ʺ", "ʻ", "ʼ", "ʽ", "ʾ", "ʿ", "ˀ", "ˁ", "˂", "˃", "˄", "˅",
      "ˆ", "ˇ", "ˈ", "ˉ", "ˊ", "ˋ", "ˌ", "ˍ", "ˎ", "ˏ", "ː", "ˑ", "˒", "˓", "˔", "˕",
      "˖", "˗", "˘", "˙", "˚", "˛", "˜", "˝", "˞", "˟", "ˠ", "ˡ", "ˢ", "ˣ", "ˤ", "˥",
      "˦", "˧", "˨", "˩", "˪", "˫", "ˬ", "˭", "ˮ", "˯", "˰", "˱", "˲", "˳", "˴", "˵",
      "˶", "˷", "˸", "˹", "˺", "˻", "˼", "˽", "˾", "˿", "΄", "΅", "·", "҃", "҄", "҅",
      "҆", "҇", "҈", "҉", "֑", "֒", "֓", "֔", "֕", "֖", "֗", "֘", "֙", "֚", "֛", "֜",
      "֝", "֞", "֟", "֠", "֡", "֢", "֣", "֤", "֥", "֦", "֧", "֨", "֩", "֪", "֫", "֬",
      "֭", "֮", "֯", "ְ", "ֱ", "ֲ", "ֳ", "ִ", "ֵ", "ֶ", "ַ", "ָ", "ֹ", "ֺ", "ֻ", "ּ",
      "ֽ", "ֿ", "ׁ", "ׂ", "ׄ", "ׅ", "ׇ", "״", "ۖ", "ۗ", "ۘ", "ۙ", "ۚ", "ۛ", "ۜ", "۝",
      "۟", "۠", "ۡ", "ۢ", "ۣ", "ۤ", "ۥ", "ۦ", "ۧ", "ۨ", "۪", "۫", "۬", "ۭ", "ަ", "ާ",
      "ި", "ީ", "ު", "ޫ", "ެ", "ޭ", "ޮ", "ޯ", "ް", "߫", "߬", "߭", "߮", "߯", "߰", "߱",
      "߲", "߳", "ߴ", "ߵ", "ߺ", "߽", "࢈", "࢐", "࢑", "ࢗ", "࢘", "࢙", "࢚", "࢛", "࢜", "࢝",
      "࢞", "࢟", "ࣉ", "࣊", "࣋", "࣌", "࣍", "࣎", "࣏", "࣐", "࣑", "࣒", "࣓", "ࣔ", "ࣕ", "ࣖ",
      "ࣗ", "ࣘ", "ࣙ", "ࣚ", "ࣛ", "ࣜ", "ࣝ", "ࣞ", "ࣟ", "࣠", "࣡", "࣢", "ࣣ", "ࣤ", "ࣥ", "ࣦ",
      "ࣧ", "ࣨ", "ࣩ", "࣪", "࣫", "࣬", "࣭", "࣮", "࣯", "ࣰ", "ࣱ", "ࣲ", "ࣳ", "ࣴ", "ࣵ", "ࣶ",
      "ࣷ", "ࣸ", "ࣹ", "ࣺ", "ࣻ", "ࣼ", "ࣽ", "ࣾ", "ࣿ", "ঁ", "়", "ু", "ূ", "ৃ", "ৄ", "্",
      "ৢ", "ৣ", "৾", "ઁ", "ં", "઼", "ુ", "ૂ", "ૃ", "ૄ", "ૅ", "ે", "ૈ", "્", "ૢ", "ૣ",
      "ૺ", "ૻ", "ૼ", "૽", "૾", "૿", "ஂ", "ீ", "்", "ಁ", "಼", "ಿ", "ೆ", "ೌ", "್", "ೢ",
      "ೣ", "ඁ", "්", "ි", "ී", "ු", "ූ", "ັ", "ິ", "ີ", "ຶ", "ື", "ຸ", "ູ", "຺", "ົ",
      "ຼ", "ໆ", "່", "້", "໊", "໋", "໌", "ໍ", "໎", "ྀ", "ཱྀ", "ྂ", "ྃ", "྄", "྆", "྇",
      "ྍ", "ྎ", "ྏ", "ྐ", "ྑ", "ྒ", "ྒྷ", "ྔ", "ྕ", "ྖ", "ྗ", "ྙ", "ྚ", "ྛ", "ྜ", "ྜྷ",
      "ྞ", "ྟ", "ྠ", "ྡ", "ྡྷ", "ྣ", "ྤ", "ྥ", "ྦ", "ྦྷ", "ྨ", "ྩ", "ྪ", "ྫ", "ྫྷ", "ྭ",
      "ྮ", "ྯ", "ྰ", "ྱ", "ྲ", "ླ", "ྴ", "ྵ", "ྶ", "ྷ", "ྸ", "ྐྵ", "ྺ", "ྻ", "ྼ", "࿆",
      "ႂ", "ႅ", "ႆ", "ႍ", "ႝ", "ჼ", "឴", "឵", "ិ", "ី", "ឹ", "ឺ", "ុ", "ូ", "ួ", "ំ",
      "៉", "៊", "់", "៌", "៍", "៎", "៏", "័", "៑", "្", "៓", "ៗ", "៝", "ᢅ", "ᢆ", "ᢩ",
      "ᪧ", "᪰", "᪱", "᪲", "᪳", "᪴", "᪵", "᪶", "᪷", "᪸", "᪹", "᪺", "᪻", "᪼", "᪽", "᪾",
      "ᪿ", "ᫀ", "᫁", "᫂", "᫃", "᫄", "᫅", "᫆", "᫇", "᫈", "᫉", "᫊", "᫋", "ᫌ", "ᫍ", "ᫎ",
      "᫏", "᫐", "᫑", "᫒", "᫓", "᫔", "᫕", "᫖", "᫗", "᫘", "᫙", "᫚", "᫛", "᫜", "᫝", "᫠",
      "᫡", "᫢", "᫣", "᫤", "᫥", "᫦", "᫧", "᫨", "᫩", "᫪", "᫫", "ᮀ", "ᮁ", "ᮢ", "ᮣ", "ᮤ",
      "ᮥ", "ᮨ", "ᮩ", "᮫", "ᮬ", "ᮭ", "᯦", "ᯨ", "ᯩ", "ᯭ", "ᯯ", "ᯰ", "ᯱ", "᳐", "᳑", "᳒",
      "᳔", "᳕", "᳖", "᳗", "᳘", "᳙", "᳚", "᳛", "᳜", "᳝", "᳞", "᳟", "᳠", "᳢", "᳣", "᳤",
      "᳥", "᳦", "᳧", "᳨", "᳭", "᳴", "᳸", "᳹", "ᶛ", "ᶜ", "ᶝ", "ᶞ", "ᶟ", "ᶠ", "ᶡ", "ᶢ",
      "ᶣ", "ᶤ", "ᶥ", "ᶦ", "ᶧ", "ᶨ", "ᶩ", "ᶪ", "ᶫ", "ᶬ", "ᶭ", "ᶮ", "ᶯ", "ᶰ", "ᶱ", "ᶲ",
      "ᶳ", "ᶴ", "ᶵ", "ᶶ", "ᶷ", "ᶸ", "ᶹ", "ᶺ", "ᶻ", "ᶼ", "ᶽ", "ᶾ", "ᶿ", "᷀", "᷁", "᷂",
      "᷃", "᷄", "᷅", "᷆", "᷇", "᷈", "᷉", "᷊", "᷋", "᷌", "᷍", "᷎", "᷏", "᷐", "᷑", "᷒",
      "ᷓ", "ᷔ", "ᷕ", "ᷖ", "ᷗ", "ᷘ", "ᷙ", "ᷚ", "ᷛ", "ᷜ", "ᷝ", "ᷞ", "ᷟ", "ᷠ", "ᷡ", "ᷢ",
      "ᷣ", "ᷤ", "ᷥ", "ᷦ", "ᷧ", "ᷨ", "ᷩ", "ᷪ", "ᷫ", "ᷬ", "ᷭ", "ᷮ", "ᷯ", "ᷰ", "ᷱ", "ᷲ",
      "ᷳ", "ᷴ", "᷵", "᷶", "᷷", "᷸", "᷹", "᷺", "᷻", "᷼", "᷽", "᷾", "᷿", "᾽", "᾿", "῀",
      "῁", "῍", "῎", "῏", "῝", "῞", "῟", "῭", "΅", "`", "´", "῾", "ₐ", "ₑ", "ₒ", "ₓ",
      "ₔ", "ₕ", "ₖ", "ₗ", "ₘ", "ₙ", "ₚ", "ₛ", "ₜ", "⃐", "⃑", "⃒", "⃓", "⃔", "⃕", "⃖",
      "⃗", "⃘", "⃙", "⃚", "⃛", "⃜", "⃝", "⃞", "⃟", "⃠", "⃡", "⃢", "⃣", "⃤", "⃥", "⃦",
      "⃧", "⃨", "⃩", "⃪", "⃫", "⃬", "⃭", "⃮", "⃯", "⃰", "⳯", "⳰", "⳱", "ⷠ", "ⷡ", "ⷢ",
      "ⷣ", "ⷤ", "ⷥ", "ⷦ", "ⷧ", "ⷨ", "ⷩ", "ⷪ", "ⷫ", "ⷬ", "ⷭ", "ⷮ", "ⷯ", "ⷰ", "ⷱ", "ⷲ",
      "ⷳ", "ⷴ", "ⷵ", "ⷶ", "ⷷ", "ⷸ", "ⷹ", "ⷺ", "ⷻ", "ⷼ", "ⷽ", "ⷾ", "ⷿ", "゙", "゚", "゛",
      "゜", "ゝ", "ゞ", "ー", "ヽ", "ヾ", "ꓸ", "ꓹ", "ꓺ", "ꓻ", "ꓼ", "ꓽ", "ꚜ", "ꚝ", "ꚞ", "ꚟ",
      "꛰", "꛱", "ꞈ", "꞉", "꞊", "꟱", "ꟲ", "ꟳ", "ꟴ", "ꟸ", "ꟹ", "꣄", "ꣅ", "꣠", "꣡", "꣢",
      "꣣", "꣤", "꣥", "꣦", "꣧", "꣨", "꣩", "꣪", "꣫", "꣬", "꣭", "꣮", "꣯", "꣰", "꣱", "ꣿ",
      "ꦀ", "ꦁ", "ꦂ", "꦳", "ꦶ", "ꦷ", "ꦸ", "ꦹ", "ꦼ", "ꦽ", "ꧏ", "ꧥ", "ꧦ", "ꪰ", "ꪲ", "ꪳ",
      "ꪴ", "ꪷ", "ꪸ", "ꪾ", "꪿", "꫁", "ꫝ", "ꫬ", "ꫭ", "ꫳ", "ꫴ", "꫶", "ꯥ", "ꯨ", "꯭", "﮲",
      "﮳", "﮴", "﮵", "﮶", "﮷", "﮸", "﮹", "﮺", "﮻", "﮼", "﮽", "﮾", "﮿", "﯀", "﯁", "﯂",
      "﻿", "ﾞ", "ﾟ", "￣", "￹", "￺", "￻"}

\* the lower-case form of one character
LowerChar(c) ==
    IF c \in CapitalSet
    THEN Smalls[CHOOSE i \in 1..Len(Capitals) : Capitals[i] = c]
    ELSE c

\* the capital sigma at position i ends a word: the nearest character before
\* it that is not case-ignorable is a cased letter, and the nearest one
\* after it is not (a character both cased and case-ignorable is passed
\* over, as the runtime's library does)
FinalSigma(s, i) ==
    /\ \E j \in 1..(i - 1) :
          /\ s[j] \in Cased \ CaseIgnorable
          /\ \A k \in (j + 1)..(i - 1) : s[k] \in CaseIgnorable
    /\ ~\E j \in (i + 1)..Len(s) :
          /\ s[j] \in Cased \ CaseIgnorable
          /\ \A k \in (i + 1)..(j - 1) : s[k] \in CaseIgnorable

\* String.prototype.toLowerCase: letter by letter, a capital sigma that ends a
\* word becoming the final small sigma
ToLowerCase(s) ==
    [i \in 1..Len(s) |->
        IF s[i] = "Σ" /\ FinalSigma(s, i) THEN "ς" ELSE LowerChar(s[i])]

RECURSIVE TrimStart(_)
TrimStart(s) ==
    IF s # <<>> /\ IsSpace(Head(s)) THEN TrimStart(Tail(s)) ELSE s

RECURSIVE TrimEnd(_)
TrimEnd(s) ==
    IF s # <<>> /\ IsSpace(s[Len(s)]) THEN TrimEnd(SubSeq(s, 1, Len(s) - 1)) ELSE s

\* String.prototype.trim
Trim(s) == TrimEnd(TrimStart(s))

\* String.prototype.includes
Includes(s, sub) ==
    \E i \in 0..(Len(s) - Len(sub)) : SubSeq(s, i + 1, i + Len(sub)) = sub

\* Array.prototype.splice(at, 0, item) on a 0-based index: the item is put
\* before the element at index `at`, or at the end when `at` is past it.
Splice(rec, at, item) ==
    LET k == IF at > Len(rec) THEN Len(rec) ELSE at
    IN  SubSeq(rec, 1, k) \o <<item>> \o SubSeq(rec, k + 1, Len(rec))

\* Array.prototype.filter((_, index) => index !== at), 0-based
WithoutIndex(rec, at) ==
    LET keep == {i \in 1..Len(rec) : i # at + 1}
        F[i \in 0..Len(rec)] ==
            IF i = 0 THEN <<>>
            ELSE IF i \in keep THEN Append(F[i - 1], rec[i]) ELSE F[i - 1]
    IN  F[Len(rec)]

\* Array.prototype.flat() of a sequence of sequences
RECURSIVE Flat(_)
Flat(ss) == IF ss = <<>> THEN <<>> ELSE Head(ss) \o Flat(Tail(ss))

(***************************************************************************)
(* CSV parsing as the pipeline configures it: trim: true and               *)
(* skip_empty_lines: true.  A line is empty when it has no character at    *)
(* all, that is when it has no field or one field that is the empty text.  *)
(***************************************************************************)
IsEmptyLine(line) == line = <<>> \/ line = << <<>> >>

ParseCsv(table) ==
    LET kept == SelectSeq(table, LAMBDA line : ~IsEmptyLine(line))
    IN  [k \in 1..Len(kept) |-> [i \in 1..Len(kept[k]) |-> Trim(kept[k][i])]]

\* the parse with skipEmptyLines false: an empty line is a record of one
\* empty field
ParseCsvKeepingEmptyLines(table) ==
    [k \in 1..Len(table) |->
        IF table[k] = <<>> THEN << <<>> >>
        ELSE [i \in 1..Len(table[k]) |-> Trim(table[k][i])]]

\* the records the parser emits: it stops with Invalid Record Length at the
\* first record that has not as many fields as the first one
EmittedRecords(records) ==
    LET ragged == {k \in 1..Len(records) : Len(records[k]) # Len(records[1])}
    IN  IF ragged = {} THEN records
        ELSE SubSeq(records, 1, (CHOOSE k \in ragged : \A j \in ragged : k <= j) - 1)

InvalidRecordLength(records) == EmittedRecords(records) # records

\* record[index] on a 0-based index; a missing field reads as undefined, which
\* every test of the pipeline treats like the empty text.
FieldAt(record, index) ==
    IF index + 1 \in 1..Len(record) THEN record[index + 1] ELSE <<>>

(***************************************************************************)
(* validateEmailColumn and containsEmailPattern of the validator service.  *)
(***************************************************************************)
\* String.prototype.split(',')
SplitComma(s) ==
    LET F[k \in 0..Len(s)] ==
            IF k = 0 THEN << <<>> >>
            ELSE IF s[k] = "," THEN Append(F[k - 1], <<>>)
            ELSE [F[k - 1] EXCEPT ![Len(F[k - 1])] = Append(@, s[k])]
    IN  F[Len(s)]

\* EMAIL_REGEX = /^[^\s@]+@[^\s@]+\.[^\s@]+$/
EMAIL_REGEX(s) ==
    /\ \A i \in 1..Len(s) : ~IsSpace(s[i])
    /\ Cardinality({i \in 1..Len(s) : s[i] = "@"}) = 1
    /\ \E i \in 2..Len(s) :
          /\ s[i] = "@"
          /\ \E j \in (i + 2)..(Len(s) - 1) : s[j] = "."

containsEmailPattern(samples) ==
    \E k \in 1..Len(SplitComma(samples)) : EMAIL_REGEX(Trim(SplitComma(samples)[k]))

\* the 0-based indices of the header fields that pass one of the heuristics
potentialEmailColumns(headers) ==
    {i \in 0..(Len(headers) - 1) :
        Includes(ToLowerCase(headers[i + 1]), S_email) \/ containsEmailPattern(headers[i + 1])}

BadRequest(msg) == [kind |-> "BadRequestException", message |-> msg]
PlainError(msg) == [kind |-> "Error", message |-> msg]
NoError == [kind |-> "none", message |-> ""]

\* a bounds check that lets the index just past the last column through
validateEmailColumnOffByOne(headers, emailColumnIndex) ==
    IF emailColumnIndex > Len(headers)
    THEN BadRequest("Invalid email column index")
    ELSE IF emailColumnIndex \notin potentialEmailColumns(headers)
    THEN BadRequest("Column doesn't appear to contain emails")
    ELSE NoError

\* NoError when the column is accepted, else the exception the function throws
validateEmailColumn(headers, emailColumnIndex) ==
    IF emailColumnIndex >= Len(headers)
    THEN BadRequest("Invalid email column index")
    ELSE IF emailColumnIndex \notin potentialEmailColumns(headers)
    THEN BadRequest("Column doesn't appear to contain emails")
    ELSE NoError

(***************************************************************************)
(* The verification service, as a deterministic stub: what it answers, and *)
(* how many consecutive calls fail in transport before it answers, depend  *)
(* on the first character of the address only.                             *)
(***************************************************************************)
FirstChar(email) == IF email = <<>> THEN "" ELSE email[1]

\* response.data.email_status
EmailStatus(email) ==
    CASE FirstChar(email) = "a" -> S_valid
      [] FirstChar(email) = "c" -> S_unknown
      [] OTHER -> S_invalid

\* whether call number `attempt` (0, 1, ...) for the address fails (timeout,
\* network error): "t..." never gets an answer, "s..." fails twice first.
TransportFails(email, attempt) ==
    \/ FirstChar(email) = "t"
    \/ FirstChar(email) = "s" /\ attempt < 2

(***************************************************************************)
(* The worker: validateEmail and processEmails.                            *)
(***************************************************************************)
\* the outcome returned once the retries are used up
SyntheticOutcome(email) ==
    [email |-> email, status |-> S_invalid, mx |-> S_error, provider |-> S_error]

\* a validateEmail that reports an address it could not reach as unverifiable
RECURSIVE validateEmailUnverifiable(_, _)
validateEmailUnverifiable(email, retries) ==
    IF ~TransportFails(email, retries)
    THEN [email |-> email, status |-> EmailStatus(email), mx |-> <<"m", "x">>, provider |-> <<"p">>]
    ELSE IF retries < MAX_RETRIES
    THEN validateEmailUnverifiable(email, retries + 1)
    ELSE [email |-> email, status |-> S_unknown, mx |-> S_error, provider |-> S_error]

\* the number of axios.get calls validateEmail(email, retries) issues
RECURSIVE NetworkCalls(_, _)
NetworkCalls(email, retries) ==
    IF ~TransportFails(email, retries) THEN 1
    ELSE IF retries < MAX_RETRIES THEN 1 + NetworkCalls(email, retries + 1)
    ELSE 1

\* a wait of one second before every retry
RetryDelayFixed(retries) == 1000

\* const delay = Math.min(Math.pow(2, retries) * 1000, 5000)
RetryDelay(retries) ==
    IF 2 ^ retries * 1000 < 5000 THEN 2 ^ retries * 1000 ELSE 5000

\* the delays validateEmail(email, retries) waits, in the order it waits them
RECURSIVE RetryDelays(_, _)
RetryDelays(email, retries) ==
    IF ~TransportFails(email, retries) THEN <<>>
    ELSE IF retries < MAX_RETRIES
    THEN <<RetryDelay(retries)>> \o RetryDelays(email, retries + 1)
    ELSE <<>>

RECURSIVE validateEmail(_, _)
validateEmail(email, retries) ==
    IF ~TransportFails(email, retries)
    THEN [email |-> email, status |-> EmailStatus(email), mx |-> <<"m", "x">>, provider |-> <<"p">>]
    ELSE IF retries < MAX_RETRIES
    THEN validateEmail(email, retries + 1)
    ELSE SyntheticOutcome(email)

\* a worker that posts a synthetic outcome when it was given no address
processEmailsPadded(emails) ==
    IF emails = <<>> THEN << SyntheticOutcome(<<>>) >>
    ELSE [i \in 1..Len(emails) |-> validateEmail(emails[i], 0)]

\* Promise.all(emails.map(validateEmail)): the results in the order of the chunk
processEmails(emails) == [i \in 1..Len(emails) |-> validateEmail(emails[i], 0)]

(***************************************************************************)
(* splitEmailsIntoChunks: element index goes to chunk index % numChunks.   *)
(***************************************************************************)
\* chunks cut as contiguous slices of the list
splitEmailsContiguous(emails, numChunks) ==
    LET size == (Len(emails) + numChunks - 1) \div numChunks
    IN  [i \in 1..numChunks |->
            SubSeq(emails, IF (i - 1) * size + 1 > Len(emails) THEN Len(emails) + 1
                           ELSE (i - 1) * size + 1,
                           IF i * size > Len(emails) THEN Len(emails) ELSE i * size)]

splitEmailsIntoChunks(emails, numChunks) ==
    LET F[k \in 0..Len(emails)] ==
            IF k = 0 THEN [i \in 1..numChunks |-> <<>>]
            ELSE [F[k - 1] EXCEPT ![((k - 1) % numChunks) + 1] = Append(@, emails[k])]
    IN  F[Len(emails)]

(***************************************************************************)
(* The row loop and the merge of validateEmailsInCsv, single-file variant. *)
(***************************************************************************)
\* !email || email.trim() === '' || ['null','undefined'].includes(email.toLowerCase())
IsShortCircuited(email) ==
    \/ email = <<>>
    \/ Trim(email) = <<>>
    \/ ToLowerCase(email) \in {S_null, S_undefined}

ZeroStats == [valid |-> 0, invalid |-> 0, unverifiable |-> 0, processed |-> 0]

\* the for-await loop over the parsed records, header first: the rows written
\* at once, the addresses kept for the workers and the stats so far
RowLoop(records, emailColumnIndex) ==
    LET F[k \in 1..Len(records)] ==
            IF k = 1
            THEN [processedRows |-> << Splice(records[1], emailColumnIndex + 1, S_Email_Validation) >>,
                  emailsToProcess |-> <<>>,
                  stats |-> ZeroStats]
            ELSE LET prev == F[k - 1]
                     record == records[k]
                     email == FieldAt(record, emailColumnIndex)
                 IN  IF IsShortCircuited(email)
                     THEN [prev EXCEPT
                             !.processedRows = Append(@, Splice(record, emailColumnIndex + 1, S_invalid)),
                             !.stats.invalid = @ + 1]
                     ELSE [prev EXCEPT
                             !.emailsToProcess = Append(@, [email |-> Trim(email),
                                                            rowIndex |-> Len(prev.emailsToProcess),
                                                            record |-> record])]
    IN  IF records = <<>>
        THEN [processedRows |-> <<>>, emailsToProcess |-> <<>>, stats |-> ZeroStats]
        ELSE F[Len(records)]

\* if (status === 'valid') valid++ else if (status === 'invalid') invalid++
\* else unverifiable++; processed++
CountResult(stats, status) ==
    IF status = S_valid
    THEN [stats EXCEPT !.valid = @ + 1, !.processed = @ + 1]
    ELSE IF status = S_invalid
    THEN [stats EXCEPT !.invalid = @ + 1, !.processed = @ + 1]
    ELSE [stats EXCEPT !.unverifiable = @ + 1, !.processed = @ + 1]

\* the row of emailsToProcess a result is attached to: the one at the
\* result's own position in the flattened per-chunk results
RowOfResult(emailsToProcess, index) == emailsToProcess[index]

\* validationResults.forEach((result, index) => ...), index from 1 here
MergeSingle(loop, validationResults, emailColumnIndex) ==
    LET F[k \in 0..Len(validationResults)] ==
            IF k = 0 THEN [processedRows |-> loop.processedRows, stats |-> loop.stats]
            ELSE LET result == validationResults[k]
                     record == RowOfResult(loop.emailsToProcess, k).record
                 IN  [processedRows |-> Append(F[k - 1].processedRows,
                                               Splice(record, emailColumnIndex + 1, result.status)),
                      stats |-> CountResult(F[k - 1].stats, result.status)]
    IN  F[Len(validationResults)]

(***************************************************************************)
(* The split-file variant: the two extracts processAndStoreCSV writes, the *)
(* address loop and the merge of validateEmailsInCsv.                      *)
(***************************************************************************)
\* the header test of the CSV processor's validateEmailColumn
ProcessorAcceptsColumn(header, emailColumnIndex) ==
    /\ Len(header) > emailColumnIndex
    /\ Includes(ToLowerCase(FieldAt(header, emailColumnIndex)), S_email)

\* processedFullRows and processedEmailRows of processAndStoreCSV
SplitExtracts(records, emailColumnIndex, removeEmptyEmails) ==
    LET F[k \in 1..Len(records)] ==
            IF k = 1
            THEN [full |-> << WithoutIndex(records[1], emailColumnIndex) >>,
                  emails |-> << <<S_email>> >>]
            ELSE LET chunk == records[k]
                     email == Trim(FieldAt(chunk, emailColumnIndex))
                     isEmptyEmail == \/ email = <<>>
                                     \/ ToLowerCase(email) = S_null
                                     \/ ToLowerCase(email) = S_undefined
                 IN  IF ~isEmptyEmail \/ ~removeEmptyEmails
                     THEN [full |-> Append(F[k - 1].full, WithoutIndex(chunk, emailColumnIndex)),
                           emails |-> Append(F[k - 1].emails, <<email>>)]
                     ELSE F[k - 1]
    IN  F[Len(records)]

\* processedRows of the second revision of processAndStoreCSV: the header and
\* the data rows, without the rows of an empty address when removeEmptyEmails
StoredFile(records, emailColumnIndex, removeEmptyEmails) ==
    LET F[k \in 0..Len(records)] ==
            IF k = 0 THEN <<>>
            ELSE IF k = 1 THEN << records[1] >>
            ELSE LET chunk == records[k]
                     email == Trim(FieldAt(chunk, emailColumnIndex))
                     isEmptyEmail == \/ email = <<>>
                                     \/ ToLowerCase(email) = S_null
                                     \/ ToLowerCase(email) = S_undefined
                 IN  IF ~isEmptyEmail \/ ~removeEmptyEmails
                     THEN Append(F[k - 1], chunk)
                     ELSE F[k - 1]
    IN  F[Len(records)]

\* the addresses of the e-mail extract: the first record is skipped, a record
\* whose first field is empty after trim is left out
EmailsOfExtract(emailsRecords) ==
    LET rest == IF emailsRecords = <<>> THEN <<>> ELSE Tail(emailsRecords)
        kept == SelectSeq(rest, LAMBDA record : FieldAt(record, 0) # <<>> /\ Trim(FieldAt(record, 0)) # <<>>)
    IN  [k \in 1..Len(kept) |-> Trim(kept[k][1])]

\* the loop over the records of the full extract, header first; validationIndex
\* is the number of results used so far
MergeSplit(fullRecords, validationResults, emailColumnIndex) ==
    LET F[k \in 0..Len(fullRecords)] ==
            IF k = 0 THEN [processedRows |-> <<>>, stats |-> ZeroStats, validationIndex |-> 0]
            ELSE IF k = 1
            THEN [F[0] EXCEPT !.processedRows =
                    << Splice(Splice(fullRecords[1], emailColumnIndex, S_Email),
                              emailColumnIndex + 1, S_Email_Validation) >>]
            ELSE LET prev == F[k - 1] IN
                 IF prev.validationIndex < Len(validationResults)
                 THEN LET result == validationResults[prev.validationIndex + 1]
                      IN  [processedRows |-> Append(prev.processedRows,
                                Splice(Splice(fullRecords[k], emailColumnIndex, result.email),
                                       emailColumnIndex + 1, result.status)),
                           stats |-> CountResult(prev.stats, result.status),
                           validationIndex |-> prev.validationIndex + 1]
                 ELSE [prev EXCEPT !.processedRows = Append(@, fullRecords[k])]
    IN  F[Len(fullRecords)]

(***************************************************************************)
(* Inputs.                                                                 *)
(***************************************************************************)
Runs == {1, 2}
Workers == 1..MAX_WORKERS

\* the one registered user, and an e-mail no user row has
UserEmail == "user@x"
GhostEmail == "ghost@x"

\* header of every input file: a name column and the address column
Header == << <<"n", "a", "m", "e">>, S_Email >>

\* raw address fields: answered valid, answered invalid
SmallPool == { <<"a">>, <<"b">> }
\* ... and the other kinds: whitespace, empty, null and undefined in some letter
\* case, answered with another status, never answered
FullPool == SmallPool \cup { <<" ">>, <<>>, <<"N", "u", "l", "l">>, S_undefined,
                             <<"c">>, <<"t">> }

SeqsUpTo(S, n) == UNION {[1..k -> S] : k \in 0..n}

Digit(k) == <<"0", "1", "2", "3", "4", "5", "6", "7", "8", "9">>[k + 1]

\* the table whose k-th data row is <<name k, k-th address>>
TableOf(addresses) ==
    <<Header>> \o [k \in 1..Len(addresses) |-> << <<Digit(k)>>, addresses[k] >>]

\* tables with a column after the address column
WideTableOf(addresses) ==
    << Header \o << <<"x">> >> >>
        \o [k \in 1..Len(addresses) |-> << <<Digit(k)>>, addresses[k], <<"y">> >>]

WideFiles == {WideTableOf(a) : a \in SeqsUpTo({ <<"a">>, <<>> }, MaxWideRows)}

InputFiles ==
    {TableOf(a) : a \in SeqsUpTo(SmallPool, MaxRows) \cup SeqsUpTo(FullPool, MaxShortRows)}
        \cup WideFiles

\* the file both overlapping runs work on
OverlapFile == TableOf(<< <<"a">>, <<"b">> >>)

\* blob paths of a run: uploads/<filename>, and the two extracts
ResultPath(r) == <<r, "file">>
FullPath(r) == <<r, "full">>
EmailsPath(r) == <<r, "emails">>
Paths == UNION {{ResultPath(r), FullPath(r), EmailsPath(r)} : r \in Runs}

NoBlob == [exists |-> FALSE, data |-> <<>>]
Blob(table) == [exists |-> TRUE, data |-> table]

(***************************************************************************)
(* State.                                                                  *)
(***************************************************************************)
VARIABLES
    variant,          \* which revision of validateEmailsInCsv is deployed
    credits0,         \* the user's balance when the runs were submitted
    params,           \* params of each run
    users,            \* the users table: e-mail -> row
    files,            \* the files table: the rows inserted, in insertion order
    blobs,            \* the blob store: path -> blob
    pc,               \* where each run is
    user,             \* the row verifyUserCredits returned to the run
    err,              \* the error the run caught or threw
    emailsToProcess,  \* emailsToProcess of each run
    fullRecords,      \* the parsed full extract (split-file variant)
    processedRows,    \* processedRows of each run
    stats,            \* stats of each run
    wstate,           \* each worker promise: none, running, resolved, rejected
    wresults,         \* what each worker posted
    pending,          \* the store calls of the settlement still in flight
    blobReads,        \* number of blob downloads of each run the store has answered
    fileData,         \* what the downloads of each run were answered with
    failed,           \* the store and queue calls of each run that came back with an error
    input,            \* the file each run was submitted for
    attemptsMade,     \* how many times the queue has delivered each job
    arrival,          \* the workers of the awaited Promise.all, in the order they posted
    invoked,          \* a function called on its own: its name and arguments
    result,           \* what that call returned
    progress,         \* the progress of each job, as set by handleValidation
    thread,           \* a worker thread looked at on its own: where each validateEmail is
    threads,          \* the worker threads of a run followed call by call, one per worker
    uploads           \* the uploadWithRetry calls of a call followed attempt by attempt

vars == <<variant, credits0, params, users, files, blobs, pc, user, err,
          emailsToProcess, fullRecords, processedRows, stats, wstate, wresults,
          pending, blobReads, fileData, failed, input, attemptsMade, arrival, invoked, result,
          progress, thread, threads, uploads>>

\* no function is called on its own in a run of the pipeline
NoCall == [fn |-> "none", table |-> <<>>, n |-> 0, answers |-> <<>>]
Pending == [returned |-> FALSE]
\* ... and no worker thread is looked at on its own
NoThread == [started |-> FALSE, emails |-> <<>>, order |-> <<>>]

\* ... and no uploadWithRetry has been called
NoUploads == [x \in {"full", "emails"} |-> [at |-> "none", i |-> 0]]

NoUser == [found |-> FALSE, user_id |-> "", credits |-> 0]

\* the downloads a run awaits: of uploads/<filename> (single-file variant), or
\* of the two extracts (split-file variant)
Downloads == {"file", "emails", "full"}

\* ... none of them answered
NoFileData == [x \in Downloads |-> [answered |-> FALSE, blob |-> NoBlob]]

IdleParams == [emailColumnIndex |-> 1, userEmail |-> UserEmail, totalEmails |-> 1]

\* the blobs a run finds, stored by processAndStoreCSV when the file was
\* uploaded: the trimmed table under uploads/<filename> (single-file variant)
\* or the two extracts (split-file variant), and nothing when it refused the
\* column or the parser stopped on a record of another length
BlobsFor(r, v, table, emailColumnIndex, removeEmptyEmails) ==
    LET records == ParseCsv(table)
        whole == ParseCsvKeepingEmptyLines(table)
        ex == SplitExtracts(records, emailColumnIndex, removeEmptyEmails)
        accepted == records # <<>> /\ ProcessorAcceptsColumn(records[1], emailColumnIndex)
        single == v = "single" /\ accepted /\ ~InvalidRecordLength(whole)
        split == v = "split" /\ accepted /\ ~InvalidRecordLength(records)
    IN  [p \in {ResultPath(r), FullPath(r), EmailsPath(r)} |->
            IF single /\ p = ResultPath(r)
            THEN Blob(StoredFile(whole, emailColumnIndex, removeEmptyEmails))
            ELSE IF split /\ p = FullPath(r) THEN Blob(ex.full)
            ELSE IF split /\ p = EmailsPath(r) THEN Blob(ex.emails)
            ELSE NoBlob]

\* the file a run is submitted for: the table as processAndStoreCSV stored it
\* under uploads/<filename> (single-file variant, when it stored one), else
\* the table as uploaded
SubmittedFile(v, table, emailColumnIndex, removeEmptyEmails) ==
    LET stored == BlobsFor(1, v, table, emailColumnIndex, removeEmptyEmails)[ResultPath(1)]
    IN  IF stored.exists THEN stored.data ELSE table

InitLocals ==
    /\ user = [r \in Runs |-> NoUser]
    /\ err = [r \in Runs |-> NoError]
    /\ emailsToProcess = [r \in Runs |-> <<>>]
    /\ fullRecords = [r \in Runs |-> <<>>]
    /\ processedRows = [r \in Runs |-> <<>>]
    /\ stats = [r \in Runs |-> ZeroStats]
    /\ wstate = [r \in Runs |-> [w \in Workers |-> "none"]]
    /\ wresults = [r \in Runs |-> [w \in Workers |-> <<>>]]
    /\ pending = [r \in Runs |-> {}]
    /\ blobReads = [r \in Runs |-> 0]
    /\ fileData = [r \in Runs |-> NoFileData]
    /\ failed = [r \in Runs |-> {}]
    /\ arrival = [r \in Runs |-> <<>>]
    /\ progress = [r \in Runs |-> 0]
    /\ thread = NoThread
    /\ threads = [w \in Workers |-> NoThread]
    /\ uploads = NoUploads

\* one run, on any input file
Init ==
    /\ variant \in {"single", "split"}
    /\ credits0 = MaxCredits
    /\ users = [u \in {UserEmail} |-> [user_id |-> "uid", credits |-> credits0]]
    /\ \E col \in (-1)..Len(Header), ue \in {UserEmail, GhostEmail, ""}, total \in 0..MaxTotal :
          params = [r \in Runs |->
                      IF r = 1 THEN [emailColumnIndex |-> col, userEmail |-> ue, totalEmails |-> total]
                      ELSE IdleParams]
    /\ \E table \in InputFiles, removeEmptyEmails \in BOOLEAN :
          /\ input = [r \in Runs |->
                        IF r = 1
                        THEN SubmittedFile(variant, table, params[1].emailColumnIndex, removeEmptyEmails)
                        ELSE <<>>]
          /\ blobs = [p \in Paths |->
                        IF p[1] = 1
                        THEN BlobsFor(1, variant, table, params[1].emailColumnIndex, removeEmptyEmails)[p]
                        ELSE NoBlob]
    /\ pc = [r \in Runs |-> IF r = 1 THEN "submit" ELSE "idle"]
    /\ attemptsMade = [r \in Runs |-> 0]
    /\ files = <<>>
    /\ invoked = NoCall
    /\ result = Pending
    /\ InitLocals

\* two jobs of the same user, each on its own copy of one file, both accepted
\* by the controller and delivered to handleValidation
InitOverlap ==
    /\ variant \in {"single", "split"}
    /\ credits0 \in 0..MaxCredits
    /\ users = [u \in {UserEmail} |-> [user_id |-> "uid", credits |-> credits0]]
    /\ params \in [Runs -> [emailColumnIndex : {1}, userEmail : {UserEmail}, totalEmails : 1..MaxTotal]]
    /\ input = [r \in Runs |-> OverlapFile]
    /\ blobs = [p \in Paths |-> BlobsFor(p[1], variant, OverlapFile, 1, FALSE)[p]]
    /\ pc = [r \in Runs |-> "start"]
    /\ attemptsMade = [r \in Runs |-> 1]
    /\ files = << [file_id |-> 1, status |-> "In Queue", user_email |-> params[1].userEmail,
                    total_emails |-> params[1].totalEmails],
                  [file_id |-> 2, status |-> "In Queue", user_email |-> params[2].userEmail,
                    total_emails |-> params[2].totalEmails] >>
    /\ invoked = NoCall
    /\ result = Pending
    /\ InitLocals

(***************************************************************************)
(* The controller's validateEmails: the checks and the insert of the       *)
(* In Queue record, then the queue.add.                                    *)
(***************************************************************************)
\* validateColumnIndex: the error it throws, if any
validateColumnIndex(columnIndex) ==
    IF columnIndex < 0 THEN BadRequest("Invalid email column index") ELSE NoError

\* the row inserted for an accepted request
InQueueRecord(r) ==
    [file_id |-> r, status |-> "In Queue", user_email |-> params[r].userEmail,
     total_emails |-> params[r].totalEmails]

\* the error the request is rejected with once isReady has resolved, if any,
\* in the order of the checks; isQueueReady is what isReady resolved with
RequestError(r, isQueueReady) ==
    IF ~isQueueReady THEN BadRequest("Email validation queue is not ready")
    ELSE IF validateColumnIndex(params[r].emailColumnIndex) # NoError
    THEN validateColumnIndex(params[r].emailColumnIndex)
    ELSE IF params[r].userEmail = "" \/ params[r].totalEmails = 0
    THEN BadRequest("User email and total emails are required")
    ELSE NoError

\* a handler that writes the record before it checks the request
FilesAfterChecksEager(r, e) == Append(files, InQueueRecord(r))

\* the files table when the checks of the request have run: the insert of
\* the In Queue record comes after them, so nothing is written by then
FilesAfterChecks(r, e) == files

\* validateEmails from the answer of emailQueue.isReady() to its next await.
\* isReady is awaited outside the try block: it resolves with the queue once
\* the connections are up, and rejects with the connection's plain Error when
\* they are not, and that error leaves the handler as it is, before any check
\* and any write.  What it resolves with, the queue itself, is truthy.  When
\* the checks pass, the insert of the In Queue record is sent and awaited.
ValidateEmails(r) ==
    /\ pc[r] = "submit"
    /\ \E readyOk \in BOOLEAN :
          IF ~readyOk
          THEN /\ err' = [err EXCEPT ![r] = PlainError("Redis connection lost")]
               /\ pc' = [pc EXCEPT ![r] = "rejected"]
               /\ failed' = [failed EXCEPT ![r] = @ \cup {"isReady"}]
               /\ files' = files
          ELSE LET e == RequestError(r, TRUE)
               IN  /\ files' = FilesAfterChecks(r, e)
                   /\ failed' = failed
                   /\ IF e # NoError
                      THEN /\ err' = [err EXCEPT ![r] = e]
                           /\ pc' = [pc EXCEPT ![r] = "rejected"]
                      ELSE /\ pc' = [pc EXCEPT ![r] = "insert"]
                           /\ err' = err
    /\ UNCHANGED <<variant, fileData, uploads, thread, threads, progress, invoked, result, arrival, attemptsMade, credits0, params, users, blobs, user,
                   emailsToProcess, fullRecords, processedRows, stats, wstate, wresults,
                   pending, blobReads, input>>

\* the insert of the In Queue record is answered, in a later turn of the
\* event loop, and emailQueue.add is called; what the insert came back with
\* is not looked at
InsertInQueue(r) ==
    /\ pc[r] = "insert"
    /\ \E storeOk \in BOOLEAN :
          files' = IF storeOk THEN Append(files, InQueueRecord(r)) ELSE files
    /\ pc' = [pc EXCEPT ![r] = "enqueue"]
    /\ UNCHANGED <<variant, fileData, uploads, thread, threads, progress, invoked, result, arrival, attemptsMade, credits0, params, users, blobs, user, err,
                   emailsToProcess, fullRecords, processedRows, stats, wstate, wresults,
                   pending, blobReads, failed, input>>

\* emailQueue.add is answered.  An add the queue refuses is caught by the
\* controller and rethrown as a BadRequestException: the request is rejected
\* with the In Queue record already written and no job.  An add the queue
\* accepts returns the response to the client, and the job waits in the
\* queue.
QueueAdd(r) ==
    /\ pc[r] = "enqueue"
    /\ \E addOk \in BOOLEAN :
          IF ~addOk
          THEN /\ pc' = [pc EXCEPT ![r] = "rejected"]
               /\ err' = [err EXCEPT ![r] = BadRequest("Redis connection lost")]
               /\ failed' = [failed EXCEPT ![r] = @ \cup {"add"}]
          ELSE /\ pc' = [pc EXCEPT ![r] = "queued"]
               /\ UNCHANGED <<err, failed>>
    /\ UNCHANGED <<variant, fileData, uploads, thread, threads, progress, invoked, result, arrival, attemptsMade, credits0, params, users, files, blobs, user,
                   emailsToProcess, fullRecords, processedRows, stats, wstate, wresults,
                   pending, blobReads, input>>

\* the queue hands the waiting job to handleValidation, which first awaits
\* job.progress(0).  A progress(0) that rejects is rethrown by
\* handleValidation: the delivery fails before validateEmailsInCsv is called.
HandleValidation(r) ==
    /\ pc[r] = "queued"
    /\ attemptsMade' = [attemptsMade EXCEPT ![r] = 1]
    /\ \E progressOk \in BOOLEAN :
          IF progressOk
          THEN /\ pc' = [pc EXCEPT ![r] = "start"]
               /\ UNCHANGED <<err, failed>>
          ELSE /\ pc' = [pc EXCEPT ![r] = "thrown"]
               /\ err' = [err EXCEPT ![r] = PlainError("Redis connection lost")]
               /\ failed' = [failed EXCEPT ![r] = @ \cup {"progress"}]
    /\ progress' = [progress EXCEPT ![r] = 0]
    /\ UNCHANGED <<variant, fileData, uploads, thread, threads, invoked, result, arrival, credits0, params, users, files, blobs, user,
                   emailsToProcess, fullRecords, processedRows, stats, wstate, wresults,
                   pending, blobReads, input>>

(***************************************************************************)
(* validateEmailsInCsv, one action per turn of the event loop.              *)
(***************************************************************************)
\* a handler whose catch block reports 100 before it rethrows
ProgressOnSettle(current, pcAfter) ==
    IF pcAfter = "thrown" THEN 100 ELSE current

\* handleValidation when its call of validateEmailsInCsv throws: the catch
\* block logs and rethrows, and leaves the progress as it is
ProgressOnThrow(current, pcAfter) == current

\* job.progress(100), awaited once validateEmailsInCsv has returned: a
\* progress update that is rejected leaves the progress as it is
ProgressOnReturn(current, progressOk) ==
    IF progressOk THEN 100 ELSE current

\* the job's handler threw: the run did, or one of its progress updates
JobFailed(r) == pc[r] = "thrown" \/ (pc[r] = "done" /\ "progress" \in failed[r])

IsBadRequest(e) == e.kind = "BadRequestException"

\* where a thrown error takes the run: the single-file variant rethrows a
\* BadRequestException at once and records any other error first; the
\* split-file variant only rethrows
AfterThrow(e) ==
    IF variant = "single" /\ ~IsBadRequest(e) THEN "catch" ELSE "thrown"

\* the comparison with its operands swapped
InsufficientCreditsSwapped(available, requiredCredits) == requiredCredits < available

\* user.credits < requiredCredits
InsufficientCredits(available, requiredCredits) == available < requiredCredits

\* verifyUserCredits: the read of the user's row (which may come back with an
\* error, or with no row) and the two checks
VerifyUserCredits(r) ==
    /\ pc[r] = "start"
    /\ \E storeOk \in BOOLEAN :
          LET email == params[r].userEmail
              found == storeOk /\ email \in DOMAIN users
              row == IF found
                     THEN [found |-> TRUE, user_id |-> users[email].user_id, credits |-> users[email].credits]
                     ELSE NoUser
              e == IF ~found THEN BadRequest("User not found")
                   ELSE IF InsufficientCredits(row.credits, params[r].totalEmails)
                   THEN BadRequest("Insufficient credits")
                   ELSE NoError
          IN  /\ failed' = [failed EXCEPT ![r] = IF storeOk THEN @ ELSE @ \cup {"select"}]
              /\ IF e # NoError
                 THEN /\ err' = [err EXCEPT ![r] = e]
                      /\ pc' = [pc EXCEPT ![r] = AfterThrow(e)]
                      /\ user' = user
                 ELSE /\ user' = [user EXCEPT ![r] = row]
                      /\ pc' = [pc EXCEPT ![r] = "download"]
                      /\ err' = err
    /\ progress' = [progress EXCEPT ![r] = ProgressOnThrow(@, pc'[r])]
    /\ UNCHANGED <<variant, fileData, uploads, thread, threads, invoked, result, arrival, attemptsMade, credits0, params, users, files, blobs, emailsToProcess,
                   fullRecords, processedRows, stats, wstate, wresults, pending, blobReads,
                   input>>

\* emailChunks.map((chunk, index) => this.createWorker(chunk, index + 1))
CreateWorkers == [w \in Workers |-> "running"]

\* single-file variant: the download of uploads/<filename> is answered.  A
\* download the store refuses, or of a blob that is not there, comes back
\* with an error and the run throws; else the run creates the parser and
\* awaits its first record.
DownloadFile(r) ==
    /\ variant = "single"
    /\ pc[r] = "download"
    /\ blobReads' = [blobReads EXCEPT ![r] = @ + 1]
    /\ \E storeOk \in BOOLEAN :
          LET blob == IF storeOk THEN blobs[ResultPath(r)] ELSE NoBlob
              e == IF ~blob.exists THEN PlainError("Failed to fetch file") ELSE NoError
          IN  /\ fileData' = [fileData EXCEPT ![r]["file"] = [answered |-> TRUE, blob |-> blob]]
              /\ failed' = [failed EXCEPT ![r] = IF storeOk THEN @ ELSE @ \cup {"download"}]
              /\ IF e # NoError
                 THEN /\ err' = [err EXCEPT ![r] = e]
                      /\ pc' = [pc EXCEPT ![r] = AfterThrow(e)]
                 ELSE /\ pc' = [pc EXCEPT ![r] = "parse"]
                      /\ err' = err
    /\ progress' = [progress EXCEPT ![r] = ProgressOnThrow(@, pc'[r])]
    /\ UNCHANGED <<variant, uploads, thread, threads, invoked, result, arrival, attemptsMade, credits0, params, users, files, blobs, user,
                   emailsToProcess, fullRecords, processedRows, stats, wstate, wresults,
                   pending, input>>

\* single-file variant: the parser emits the records of the downloaded file.
\* parse() hands its input to the parser on setImmediate, so the loop over
\* the records runs in a later turn of the event loop than the answer of the
\* download.  The check of the header, the row loop and the creation of the
\* workers follow in that one turn.
ReadRecords(r) ==
    /\ variant = "single"
    /\ pc[r] = "parse"
    /\ LET records == ParseCsv(fileData[r]["file"].blob.data)
           col == params[r].emailColumnIndex
           e == IF records = <<>> THEN NoError ELSE validateEmailColumn(records[1], col)
           loop == RowLoop(records, col)
       IN  IF e # NoError
           THEN /\ err' = [err EXCEPT ![r] = e]
                /\ pc' = [pc EXCEPT ![r] = AfterThrow(e)]
                /\ UNCHANGED <<emailsToProcess, processedRows, stats, wstate>>
           ELSE /\ emailsToProcess' = [emailsToProcess EXCEPT ![r] = loop.emailsToProcess]
                /\ processedRows' = [processedRows EXCEPT ![r] = loop.processedRows]
                /\ stats' = [stats EXCEPT ![r] = loop.stats]
                /\ wstate' = [wstate EXCEPT ![r] = CreateWorkers]
                /\ pc' = [pc EXCEPT ![r] = "await"]
                /\ err' = err
    /\ progress' = [progress EXCEPT ![r] = ProgressOnThrow(@, pc'[r])]
    /\ UNCHANGED <<variant, fileData, uploads, thread, threads, invoked, result, arrival, attemptsMade, credits0, params, users, files, blobs, user, fullRecords,
                   wresults, pending, blobReads, failed, input>>

\* the blob path of a download of the split-file variant
ExtractPath(r, x) == IF x = "emails" THEN EmailsPath(r) ELSE FullPath(r)

\* split-file variant: one of the two downloads Promise.all awaits is
\* answered, in either order.  A download the store refuses, or of a blob
\* that is not there, comes back without data.  When both are answered the
\* run throws if either came back without data; else it creates the parsers
\* and awaits the first record of the e-mail extract.
DownloadExtracts(r, x) ==
    /\ variant = "split"
    /\ pc[r] = "download"
    /\ ~fileData[r][x].answered
    /\ blobReads' = [blobReads EXCEPT ![r] = @ + 1]
    /\ \E storeOk \in BOOLEAN :
          LET blob == IF storeOk THEN blobs[ExtractPath(r, x)] ELSE NoBlob
              answers == [fileData[r] EXCEPT ![x] = [answered |-> TRUE, blob |-> blob]]
              both == answers["emails"].answered /\ answers["full"].answered
              e == IF both /\ ~(answers["emails"].blob.exists /\ answers["full"].blob.exists)
                   THEN PlainError("Failed to fetch files")
                   ELSE NoError
          IN  /\ fileData' = [fileData EXCEPT ![r] = answers]
              /\ failed' = [failed EXCEPT ![r] = IF storeOk THEN @ ELSE @ \cup {"download"}]
              /\ IF e # NoError
                 THEN /\ err' = [err EXCEPT ![r] = e]
                      /\ pc' = [pc EXCEPT ![r] = AfterThrow(e)]
                 ELSE /\ pc' = [pc EXCEPT ![r] = IF both THEN "parse" ELSE @]
                      /\ err' = err
    /\ progress' = [progress EXCEPT ![r] = ProgressOnThrow(@, pc'[r])]
    /\ UNCHANGED <<variant, uploads, thread, threads, invoked, result, arrival, attemptsMade, credits0, params, users, files, blobs, user,
                   emailsToProcess, fullRecords, processedRows, stats, wstate, wresults,
                   pending, input>>

\* split-file variant: the parser emits the records of the e-mail extract, in
\* a later turn of the event loop than the answers of the downloads; the
\* address loop and the creation of the workers follow in that one turn.  The
\* parser of the full extract holds the records the merge will read.
ReadExtracts(r) ==
    /\ variant = "split"
    /\ pc[r] = "parse"
    /\ emailsToProcess' = [emailsToProcess EXCEPT ![r] =
                              EmailsOfExtract(ParseCsv(fileData[r]["emails"].blob.data))]
    /\ fullRecords' = [fullRecords EXCEPT ![r] = ParseCsv(fileData[r]["full"].blob.data)]
    /\ wstate' = [wstate EXCEPT ![r] = CreateWorkers]
    /\ pc' = [pc EXCEPT ![r] = "await"]
    /\ progress' = [progress EXCEPT ![r] = ProgressOnThrow(@, pc'[r])]
    /\ UNCHANGED <<variant, fileData, uploads, thread, threads, invoked, result, arrival, attemptsMade, credits0, params, users, files, blobs, user, err, processedRows,
                   stats, wresults, pending, blobReads, failed, input>>

\* the addresses handed to the workers, in list order
EmailsOnly(r) ==
    IF variant = "single"
    THEN [k \in 1..Len(emailsToProcess[r]) |-> emailsToProcess[r][k].email]
    ELSE emailsToProcess[r]

\* workers that are each given the whole address list
ChunkOfWhole(r, w) == EmailsOnly(r)

\* workerData.emails of worker w of run r
ChunkOf(r, w) == splitEmailsIntoChunks(EmailsOnly(r), MAX_WORKERS)[w]

\* results.flat(): the per-chunk results, chunk after chunk
Flattened(results) == Flat([w \in Workers |-> results[w]])

\* a gather that takes the chunks' results in the order the workers posted
ValidationResultsByArrival(results, order) ==
    Flat([k \in 1..Len(order) |-> results[order[k]]])

\* (await Promise.all(workerPromises)).flat(): Promise.all resolves with the
\* results in the order of the promises, whatever the order they settled in
ValidationResults(results, order) == Flattened(results)

\* what the run does once Promise.all(workerPromises) has resolved, up to the
\* upload call: the merge of the results into processedRows and stats
Merged(r, validationResults) ==
    IF variant = "single"
    THEN MergeSingle([processedRows |-> processedRows[r],
                      emailsToProcess |-> emailsToProcess[r],
                      stats |-> stats[r]],
                     validationResults, params[r].emailColumnIndex)
    ELSE MergeSplit(fullRecords[r], validationResults, params[r].emailColumnIndex)

\* worker.on('message') of worker w with the results it posted: resolve(results).
\* When that resolves the last promise, Promise.all resolves and the run goes
\* on, in the same turn of the event loop, through the merge to the upload
\* call.  A message that arrives once Promise.all has rejected still resolves
\* its promise, which no one awaits any more.
WorkerMessageWith(r, w, results) ==
    /\ wstate[r][w] = "running"
    /\ wstate' = [wstate EXCEPT ![r][w] = "resolved"]
    /\ wresults' = [wresults EXCEPT ![r][w] = results]
    /\ arrival' = IF pc[r] = "await" THEN [arrival EXCEPT ![r] = Append(@, w)] ELSE arrival
    /\ IF \A v \in Workers : wstate'[r][v] = "resolved"
       THEN /\ processedRows' = [processedRows EXCEPT
                  ![r] = Merged(r, ValidationResults(wresults'[r], arrival'[r])).processedRows]
            /\ stats' = [stats EXCEPT
                  ![r] = Merged(r, ValidationResults(wresults'[r], arrival'[r])).stats]
            /\ pc' = [pc EXCEPT ![r] = "upload"]
       ELSE UNCHANGED <<processedRows, stats, pc>>
    /\ progress' = [progress EXCEPT ![r] = ProgressOnThrow(@, pc'[r])]
    /\ UNCHANGED <<variant, fileData, uploads, thread, threads, invoked, result, attemptsMade, credits0, params, users, files, blobs, user, err,
                   emailsToProcess, fullRecords, pending, blobReads, failed, input>>

\* a worker runs through its chunk and posts, and the main thread handles
\* the message: the thread's calls taken as a whole
WorkerMessage(r, w) == WorkerMessageWith(r, w, processEmails(ChunkOf(r, w)))

\* a worker emits 'error' or exits with a non-zero code before it has posted:
\* its promise rejects.  While the run awaits Promise.all, Promise.all rejects
\* with it and the run is in its catch block in the same turn of the event
\* loop; once Promise.all has rejected, the rejection changes the promise
\* only.
WorkerFails(r, w) ==
    /\ wstate[r][w] = "running"
    /\ wstate' = [wstate EXCEPT ![r][w] = "rejected"]
    /\ IF pc[r] = "await"
       THEN /\ err' = [err EXCEPT ![r] = PlainError("Worker failed")]
            /\ pc' = [pc EXCEPT ![r] = AfterThrow(PlainError("Worker failed"))]
            /\ arrival' = [arrival EXCEPT ![r] = <<>>]
       ELSE UNCHANGED <<err, pc, arrival>>
    /\ progress' = [progress EXCEPT ![r] = ProgressOnThrow(@, pc'[r])]
    /\ UNCHANGED <<variant, fileData, uploads, thread, threads, invoked, result, attemptsMade, credits0, params, users, files, blobs, user,
                   emailsToProcess, fullRecords, processedRows, stats, wresults, pending,
                   blobReads, failed, input>>

\* the store calls issued after a successful upload: the single-file variant
\* awaits the insert and then the update; the split-file variant issues the
\* insert, the update and the removal of the extracts together (Promise.all)
SettlementCalls == IF variant = "single" THEN {"insert"} ELSE {"insert", "update", "remove"}

\* the upload of the augmented table to uploads/<filename>
UploadResult(r) ==
    /\ pc[r] = "upload"
    /\ \E storeOk \in BOOLEAN :
          IF storeOk
          THEN /\ blobs' = [blobs EXCEPT ![ResultPath(r)] = Blob(processedRows[r])]
               /\ pending' = [pending EXCEPT ![r] = SettlementCalls]
               /\ pc' = [pc EXCEPT ![r] = "settle"]
               /\ UNCHANGED <<err, failed>>
          ELSE /\ err' = [err EXCEPT ![r] = PlainError("Failed to update file")]
               /\ pc' = [pc EXCEPT ![r] = AfterThrow(PlainError("Failed to update file"))]
               /\ failed' = [failed EXCEPT ![r] = @ \cup {"upload"}]
               /\ UNCHANGED <<blobs, pending>>
    /\ arrival' = [arrival EXCEPT ![r] = <<>>]
    /\ progress' = [progress EXCEPT ![r] = ProgressOnThrow(@, pc'[r])]
    /\ UNCHANGED <<variant, fileData, uploads, thread, threads, invoked, result, attemptsMade, credits0, params, users, files, user, emailsToProcess,
                   fullRecords, processedRows, stats, wstate, wresults, blobReads, input>>

\* what is left in flight once `call` has come back, and where the run is then
AfterCall(r, call) ==
    IF variant = "single" /\ call = "insert" THEN {"update"} ELSE pending[r] \ {call}

\* a settlement that throws as soon as one of its calls comes back with an error
PcAfterCallChecked(r, call, storeOk) ==
    IF ~storeOk THEN "thrown" ELSE IF AfterCall(r, call) = {} THEN "returned" ELSE "settle"

\* ... the run returns when nothing is left, whether the calls came back with
\* an error or not: no result of a settlement call is looked at
PcAfterCall(r, call, storeOk) == IF AfterCall(r, call) = {} THEN "returned" ELSE "settle"

\* the row the run inserts on success
CompletedRecord(r) ==
    [file_id |-> r, status |-> "Completed", user_id |-> user[r].user_id,
     stats |-> stats[r], credits_consumed |-> params[r].totalEmails]

\* supabase.from('files').insert({... status: 'Completed' ...}); the result of
\* the call is not looked at
InsertCompleted(r) ==
    /\ pc[r] = "settle"
    /\ "insert" \in pending[r]
    /\ \E storeOk \in BOOLEAN :
          /\ files' = IF storeOk THEN Append(files, CompletedRecord(r)) ELSE files
          /\ failed' = [failed EXCEPT ![r] = IF storeOk THEN @ ELSE @ \cup {"insert"}]
          /\ pc' = [pc EXCEPT ![r] = PcAfterCall(r, "insert", storeOk)]
    /\ pending' = [pending EXCEPT ![r] = AfterCall(r, "insert")]
    /\ progress' = [progress EXCEPT ![r] = ProgressOnThrow(@, pc'[r])]
    /\ UNCHANGED <<variant, fileData, uploads, thread, threads, invoked, result, arrival, attemptsMade, credits0, params, users, blobs, user, err, emailsToProcess,
                   fullRecords, processedRows, stats, wstate, wresults, blobReads, input>>

\* a debit relative to the balance the store holds at the time of the update
DebitedCreditsFromStore(r) == users[params[r].userEmail].credits - params[r].totalEmails

\* credits: user.credits - params.totalEmails, user being the row read by
\* verifyUserCredits
DebitedCredits(r) == user[r].credits - params[r].totalEmails

\* supabase.from('users').update({credits: ...}).eq('user_id', ...); the result
\* of the call is not looked at
UpdateCredits(r) ==
    /\ pc[r] = "settle"
    /\ "update" \in pending[r]
    /\ \E storeOk \in BOOLEAN :
          /\ users' = IF storeOk
                      THEN [u \in DOMAIN users |->
                              IF users[u].user_id = user[r].user_id
                              THEN [users[u] EXCEPT !.credits = DebitedCredits(r)]
                              ELSE users[u]]
                      ELSE users
          /\ failed' = [failed EXCEPT ![r] = IF storeOk THEN @ ELSE @ \cup {"update"}]
          /\ pc' = [pc EXCEPT ![r] = PcAfterCall(r, "update", storeOk)]
    /\ pending' = [pending EXCEPT ![r] = AfterCall(r, "update")]
    /\ progress' = [progress EXCEPT ![r] = ProgressOnThrow(@, pc'[r])]
    /\ UNCHANGED <<variant, fileData, uploads, thread, threads, invoked, result, arrival, attemptsMade, credits0, params, files, blobs, user, err, emailsToProcess,
                   fullRecords, processedRows, stats, wstate, wresults, blobReads, input>>

\* storage.remove([full extract, e-mail extract]) of the split-file variant
RemoveExtracts(r) ==
    /\ pc[r] = "settle"
    /\ "remove" \in pending[r]
    /\ \E storeOk \in BOOLEAN :
          /\ blobs' = IF storeOk
                      THEN [blobs EXCEPT ![FullPath(r)] = NoBlob, ![EmailsPath(r)] = NoBlob]
                      ELSE blobs
          /\ failed' = [failed EXCEPT ![r] = IF storeOk THEN @ ELSE @ \cup {"remove"}]
          /\ pc' = [pc EXCEPT ![r] = PcAfterCall(r, "remove", storeOk)]
    /\ pending' = [pending EXCEPT ![r] = AfterCall(r, "remove")]
    /\ progress' = [progress EXCEPT ![r] = ProgressOnThrow(@, pc'[r])]
    /\ UNCHANGED <<variant, fileData, uploads, thread, threads, invoked, result, arrival, attemptsMade, credits0, params, users, files, user, err, emailsToProcess,
                   fullRecords, processedRows, stats, wstate, wresults, blobReads, input>>

\* the row the single-file variant inserts for an error that is not a
\* BadRequestException
ErrorRecord(r) ==
    [file_id |-> r, status |-> "Error", user_id |-> "",
     stats |-> [error |-> err[r].message], credits_consumed |-> 0]

\* a catch block that lets the error of a failed insert escape
RethrownSecondary(r, storeOk) ==
    IF storeOk THEN err[r] ELSE PlainError("Failed to insert file record")

\* throw error: the error the catch block caught, whatever the insert returned
Rethrown(r, storeOk) == err[r]

\* the catch block of the single-file variant: the insert, then the rethrow
RecordFailure(r) ==
    /\ pc[r] = "catch"
    /\ \E storeOk \in BOOLEAN :
          /\ files' = IF storeOk THEN Append(files, ErrorRecord(r)) ELSE files
          /\ failed' = [failed EXCEPT ![r] = IF storeOk THEN @ ELSE @ \cup {"record"}]
          /\ err' = [err EXCEPT ![r] = Rethrown(r, storeOk)]
    /\ pc' = [pc EXCEPT ![r] = "thrown"]
    /\ progress' = [progress EXCEPT ![r] = ProgressOnThrow(@, pc'[r])]
    /\ UNCHANGED <<variant, fileData, uploads, thread, threads, invoked, result, arrival, attemptsMade, credits0, params, users, blobs, user, emailsToProcess,
                   fullRecords, processedRows, stats, wstate, wresults, pending, blobReads,
                   input>>

\* handleValidation after validateEmailsInCsv has returned: job.progress(100)
\* is answered.  A rejected update is rethrown by the catch block: the job
\* fails although its run has completed.
ProgressHundred(r) ==
    /\ pc[r] = "returned"
    /\ pc' = [pc EXCEPT ![r] = "done"]
    /\ \E progressOk \in BOOLEAN :
          /\ progress' = [progress EXCEPT ![r] = ProgressOnReturn(@, progressOk)]
          /\ IF progressOk
             THEN UNCHANGED <<err, failed>>
             ELSE /\ err' = [err EXCEPT ![r] = PlainError("Redis connection lost")]
                  /\ failed' = [failed EXCEPT ![r] = @ \cup {"progress"}]
    /\ UNCHANGED <<variant, fileData, uploads, thread, threads, invoked, result, arrival, attemptsMade, credits0, params, users,
                   files, blobs, user, emailsToProcess, fullRecords, processedRows, stats,
                   wstate, wresults, pending, blobReads, input>>

\* the steps of the jobs the queue has delivered
NextRunsButMessage ==
    \/ \E r \in Runs : VerifyUserCredits(r)
    \/ \E r \in Runs : DownloadFile(r)
    \/ \E r \in Runs : ReadRecords(r)
    \/ \E r \in Runs, x \in {"emails", "full"} : DownloadExtracts(r, x)
    \/ \E r \in Runs : ReadExtracts(r)
    \/ \E r \in Runs, w \in Workers : WorkerFails(r, w)
    \/ \E r \in Runs : UploadResult(r)
    \/ \E r \in Runs : InsertCompleted(r)
    \/ \E r \in Runs : UpdateCredits(r)
    \/ \E r \in Runs : RemoveExtracts(r)
    \/ \E r \in Runs : RecordFailure(r)
    \/ \E r \in Runs : ProgressHundred(r)

NextRuns ==
    \/ NextRunsButMessage
    \/ \E r \in Runs, w \in Workers : WorkerMessage(r, w)

\* the steps of the requests, up to the first delivery of their jobs
NextRequests ==
    \/ \E r \in Runs : ValidateEmails(r)
    \/ \E r \in Runs : InsertInQueue(r)
    \/ \E r \in Runs : QueueAdd(r)
    \/ \E r \in Runs : HandleValidation(r)

Next ==
    \/ NextRequests
    \/ NextRuns

Spec == Init /\ [][Next]_vars

(***************************************************************************)
(* The queue's retries: a job whose handleValidation threw is delivered    *)
(* again, with the same job data, until defaultJobOptions.attempts         *)
(* deliveries have been made.  Each delivery is a fresh call of            *)
(* validateEmailsInCsv; the stores keep what earlier deliveries wrote.     *)
(***************************************************************************)
Redeliver(r) ==
    /\ JobFailed(r)
    /\ attemptsMade[r] < maxAttempts
    /\ attemptsMade' = [attemptsMade EXCEPT ![r] = @ + 1]
    /\ \E progressOk \in BOOLEAN :
          IF progressOk
          THEN /\ pc' = [pc EXCEPT ![r] = "start"]
               /\ err' = [err EXCEPT ![r] = NoError]
               /\ failed' = [failed EXCEPT ![r] = {}]
          ELSE /\ pc' = [pc EXCEPT ![r] = "thrown"]
               /\ err' = [err EXCEPT ![r] = PlainError("Redis connection lost")]
               /\ failed' = [failed EXCEPT ![r] = {"progress"}]
    /\ user' = [user EXCEPT ![r] = NoUser]
    /\ emailsToProcess' = [emailsToProcess EXCEPT ![r] = <<>>]
    /\ fullRecords' = [fullRecords EXCEPT ![r] = <<>>]
    /\ processedRows' = [processedRows EXCEPT ![r] = <<>>]
    /\ stats' = [stats EXCEPT ![r] = ZeroStats]
    /\ wstate' = [wstate EXCEPT ![r] = [w \in Workers |-> "none"]]
    /\ wresults' = [wresults EXCEPT ![r] = [w \in Workers |-> <<>>]]
    /\ pending' = [pending EXCEPT ![r] = {}]
    /\ blobReads' = [blobReads EXCEPT ![r] = 0]
    /\ fileData' = [fileData EXCEPT ![r] = NoFileData]
    /\ progress' = [progress EXCEPT ![r] = 0]
    /\ UNCHANGED <<variant, uploads, thread, threads, invoked, result, arrival, credits0, params, users, files, blobs, input>>

\* the files the retried job is submitted for
RetryFiles == {TableOf(<< <<"a">> >>), TableOf(<< <<"b">>, <<" ">> >>)}

\* one accepted request, on a small file, with the queue's retries
InitRetry ==
    /\ variant \in {"single", "split"}
    /\ credits0 = MaxCredits
    /\ users = [u \in {UserEmail} |-> [user_id |-> "uid", credits |-> credits0]]
    /\ \E col \in 1..Len(Header), ue \in {UserEmail, GhostEmail}, total \in 1..MaxTotal :
          params = [r \in Runs |->
                      IF r = 1 THEN [emailColumnIndex |-> col, userEmail |-> ue, totalEmails |-> total]
                      ELSE IdleParams]
    /\ \E table \in RetryFiles :
          /\ input = [r \in Runs |->
                        IF r = 1
                        THEN SubmittedFile(variant, table, params[1].emailColumnIndex, FALSE)
                        ELSE <<>>]
          /\ blobs = [p \in Paths |->
                        IF p[1] = 1
                        THEN BlobsFor(1, variant, table, params[1].emailColumnIndex, FALSE)[p]
                        ELSE NoBlob]
    /\ pc = [r \in Runs |-> IF r = 1 THEN "submit" ELSE "idle"]
    /\ attemptsMade = [r \in Runs |-> 0]
    /\ files = <<>>
    /\ invoked = NoCall
    /\ result = Pending
    /\ InitLocals

NextRetry ==
    \/ Next
    \/ \E r \in Runs : Redeliver(r)

SpecRetry == InitRetry /\ [][NextRetry]_vars

SpecOverlap == InitOverlap /\ [][NextRuns]_vars

(***************************************************************************)
(* The functions on their own: one call, on arguments drawn from bounded   *)
(* sets, and its return.                                                   *)
(***************************************************************************)
\* header texts: accepted by name, accepted by pattern, and accepted by neither
HeaderPool ==
    { <<"n", "a", "m", "e">>, S_Email, <<"E", "M", "A", "I", "L">>,
      <<"a", "@", "b", ".", "c">>, <<"x", ",", " ", "a", "@", "b", ".", "c">>,
      <<"a", "@", "b">> }

SplitCalls ==
    {[fn |-> "splitEmailsIntoChunks", table |-> emails, n |-> numChunks, answers |-> <<>>] :
        emails \in SeqsUpTo(SmallPool, MaxRows), numChunks \in 1..MAX_WORKERS}

\* validateEmailColumn is private to the service and receives the index the
\* controller let through: never a negative one
ColumnCalls ==
    {[fn |-> "validateEmailColumn", table |-> headers, n |-> index, answers |-> <<>>] :
        headers \in SeqsUpTo(HeaderPool, MaxHeaders) \ {<<>>}, index \in 0..(MaxHeaders + 1)}

\* the controller's validateColumnIndex, on the number parseInt made of the
\* request's emailColumnIndex
ColumnIndexCalls ==
    {[fn |-> "validateColumnIndex", table |-> <<>>, n |-> index, answers |-> <<>>] :
        index \in (-1)..(MaxHeaders + 1)}

\* the data row k cut to, or extended to, `width` fields
RowOfWidth(k, width) == SubSeq(<< <<Digit(k)>>, <<"a">>, <<"y">> >>, 1, width)

\* tables under Header whose data rows have one, two or three fields
UnitTables ==
    {<<Header>> \o [k \in 1..Len(widths) |-> RowOfWidth(k, widths[k])] :
        widths \in SeqsUpTo(1..3, MaxUnitRows)}

\* the files processAndStoreCSV is called with: those tables, tables with
\* empty addresses and addresses in blanks, one that ends in an empty line,
\* and the empty file.  A table is the sequence of the lines of the text; the
\* line break that ends the last line makes no line of its own.
ProcessTables ==
    UnitTables
        \cup {TableOf(a) : a \in SeqsUpTo({ <<" ", "a">>, <<>> }, MaxUnitRows)}
        \cup {Append(TableOf(<< <<"a">> >>), <<>>), <<>>}

\* the answers of the blob store to the upload attempts, in the order made:
\* TRUE for an upload that came back without error
StoreAnswers(n) == [1..n -> BOOLEAN]

\* the first revision makes up to UPLOAD_ATTEMPTS uploads of each extract,
\* the second one upload of the file
ProcessCalls ==
    {[fn |-> "processAndStoreCSV", table |-> table, n |-> index, answers |-> answers,
      removeEmptyEmails |-> removeEmptyEmails, rev |-> 1] :
        table \in ProcessTables, index \in 0..Len(Header),
        answers \in StoreAnswers(2 * UPLOAD_ATTEMPTS), removeEmptyEmails \in BOOLEAN}
    \cup
    {[fn |-> "processAndStoreCSV", table |-> table, n |-> index, answers |-> answers,
      removeEmptyEmails |-> removeEmptyEmails, rev |-> 2] :
        table \in ProcessTables, index \in 0..Len(Header),
        answers \in StoreAnswers(1), removeEmptyEmails \in BOOLEAN}

UploadCalls ==
    {[fn |-> fn, table |-> OverlapFile, n |-> 0, answers |-> answers] :
        fn \in {"uploadWithRetry", "uploadResult"}, answers \in StoreAnswers(UPLOAD_ATTEMPTS)}

\* headerValidator of the CSV processor's validateEmailColumn, row after row:
\* `resolved` is what the promise was resolved with, at the header row
HeaderValidator(rows, emailColumnIndex) ==
    LET F[k \in 0..Len(rows)] ==
            IF k = 0
            THEN [isResolved |-> FALSE, headerLength |-> 0, hasInconsistentColumns |-> FALSE,
                  resolved |-> [columnName |-> <<>>, hasInconsistentColumns |-> FALSE],
                  error |-> NoError]
            ELSE LET prev == F[k - 1]
                     row == rows[k]
                 IN  IF prev.error # NoError THEN prev
                     ELSE IF prev.isResolved
                     THEN [prev EXCEPT !.hasInconsistentColumns = @ \/ Len(row) # prev.headerLength]
                     ELSE IF Len(row) <= emailColumnIndex
                     THEN [prev EXCEPT !.error = BadRequest("Column index does not exist in the CSV file")]
                     ELSE IF ~Includes(ToLowerCase(FieldAt(row, emailColumnIndex)), S_email)
                     THEN [prev EXCEPT !.headerLength = Len(row),
                                       !.error = BadRequest("Column is not an email column")]
                     ELSE [prev EXCEPT !.headerLength = Len(row),
                                       !.isResolved = TRUE,
                                       !.resolved = [columnName |-> FieldAt(row, emailColumnIndex),
                                                     hasInconsistentColumns |-> prev.hasInconsistentColumns]]
    IN  F[Len(rows)]

\* the upload of the augmented file by validateEmailsInCsv: one upload, whose
\* error is thrown
uploadResult(answers) == [ok |-> answers[1], attempts |-> 1]

\* what a call has put in the blob store, under the names of run 1
NothingUploaded == [file |-> NoBlob, full |-> NoBlob, emails |-> NoBlob]

\* the blob store after a call that uploaded `uploaded` (upsert)
BlobsAfter(uploaded) ==
    [p \in Paths |-> IF p[1] = 1 /\ uploaded[p[2]].exists THEN uploaded[p[2]] ELSE blobs[p]]

\* what a call ends with when it throws e
Thrown(e) ==
    [returned |-> TRUE, ok |-> FALSE, error |-> e, warning |-> FALSE, full |-> <<>>, emails |-> <<>>]

\* the errors processAndStoreCSV can end with before it uploads anything: a
\* header the validator refuses and a parser that stops on a later record
\* both end the call; which of the two errors it ends with is left open
PipelineErrors(table, emailColumnIndex) ==
    LET records == ParseCsv(table)
        validated == HeaderValidator(EmittedRecords(records), emailColumnIndex)
    IN  (IF validated.error # NoError THEN {validated.error} ELSE {})
            \cup (IF InvalidRecordLength(records)
                  THEN {PlainError("Invalid Record Length")} ELSE {})

\* the two extracts processAndStoreCSV uploads
ExtractsOf(call) == SplitExtracts(ParseCsv(call.table), call.n, call.removeEmptyEmails)

\* what processAndStoreCSV returns once both uploads have returned
processAndStoreCSV(table, emailColumnIndex, removeEmptyEmails) ==
    LET records == ParseCsv(table)
        validated == HeaderValidator(EmittedRecords(records), emailColumnIndex)
        extracts == SplitExtracts(records, emailColumnIndex, removeEmptyEmails)
    IN  [returned |-> TRUE, ok |-> TRUE, error |-> NoError,
         warning |-> validated.resolved.hasInconsistentColumns,
         full |-> extracts.full, emails |-> extracts.emails]

\* the second revision of processAndStoreCSV: validateEmailColumn on the
\* first record of the parse that skips empty lines, then the pipeline over
\* the parse that keeps them, and one upload of the rows kept to
\* uploads/<filename>, whose error is thrown.  It returns the rows uploaded
\* (`full`).  The parser refuses a record shorter than the header before the
\* pipeline's own test of chunk.length can see it.
processAndStoreWholeCSV(table, emailColumnIndex, removeEmptyEmails, answers) ==
    LET validated == ParseCsv(table)
        headerError == HeaderValidator(<< validated[1] >>, emailColumnIndex).error
        records == ParseCsvKeepingEmptyLines(table)
        rows == StoredFile(records, emailColumnIndex, removeEmptyEmails)
    IN  IF validated = <<>> THEN {}
        ELSE IF headerError # NoError
        THEN {[result |-> Thrown(headerError), uploaded |-> NothingUploaded]}
        ELSE IF InvalidRecordLength(records)
        THEN {[result |-> Thrown(PlainError("Invalid Record Length")),
               uploaded |-> NothingUploaded]}
        ELSE IF ~answers[1]
        THEN {[result |-> Thrown(PlainError("Failed to upload file")),
               uploaded |-> NothingUploaded]}
        ELSE {[result |-> [returned |-> TRUE, ok |-> TRUE, error |-> NoError, warning |-> FALSE,
                           full |-> rows, emails |-> <<>>],
               uploaded |-> [NothingUploaded EXCEPT !.file = Blob(rows)]]}

\* the uploadWithRetry calls a call has started, each at its first upload
UploadsStarted(names) ==
    [x \in {"full", "emails"} |->
        IF x \in names THEN [at |-> "upload", i |-> 1] ELSE [at |-> "none", i |-> 0]]

\* processAndStoreCSV up to its first await that the store answers.  The
\* first revision runs validateEmailColumn and the pipeline and, when neither
\* has thrown, calls uploadWithRetry for the two extracts (Promise.all): both
\* are at their first upload.  The second revision runs up to the answer of
\* its one upload.  On a file without a record validateEmailColumn never
\* settles and the call never returns.
CallProcessAndStoreCSV ==
    /\ invoked.fn = "processAndStoreCSV"
    /\ result = Pending
    /\ uploads = NoUploads
    /\ IF invoked.rev = 1
       THEN /\ ParseCsv(invoked.table) # <<>>
            /\ IF PipelineErrors(invoked.table, invoked.n) # {}
               THEN /\ \E e \in PipelineErrors(invoked.table, invoked.n) : result' = Thrown(e)
                    /\ uploads' = uploads
               ELSE /\ uploads' = UploadsStarted({"full", "emails"})
                    /\ result' = result
            /\ blobs' = blobs
       ELSE /\ \E outcome \in processAndStoreWholeCSV(invoked.table, invoked.n,
                                                       invoked.removeEmptyEmails, invoked.answers) :
                  /\ result' = outcome.result
                  /\ blobs' = BlobsAfter(outcome.uploaded)
            /\ uploads' = uploads
    /\ UNCHANGED <<variant, fileData, thread, threads, progress, credits0, params, users, files, pc, user, err,
                   emailsToProcess, fullRecords, processedRows, stats, wstate, wresults,
                   pending, blobReads, failed, input, attemptsMade, arrival, invoked>>

\* uploadWithRetry of the full extract, called on its own: at its first upload
CallUploadWithRetry ==
    /\ invoked.fn = "uploadWithRetry"
    /\ result = Pending
    /\ uploads = NoUploads
    /\ uploads' = UploadsStarted({"full"})
    /\ UNCHANGED <<variant, fileData, thread, threads, progress, credits0, params, users, files, blobs, pc, user, err,
                   emailsToProcess, fullRecords, processedRows, stats, wstate, wresults,
                   pending, blobReads, failed, input, attemptsMade, arrival, invoked, result>>

\* the answer of the store to attempt i of uploadWithRetry x
AnswerOf(x, i) ==
    invoked.answers[(IF x = "emails" THEN UPLOAD_ATTEMPTS ELSE 0) + i]

\* the data uploadWithRetry x uploads
UploadData(x) ==
    IF invoked.fn = "uploadWithRetry" THEN invoked.table
    ELSE IF x = "full" THEN ExtractsOf(invoked).full
    ELSE ExtractsOf(invoked).emails

\* the store answers the upload uploadWithRetry x is at.  An upload it
\* accepts is in the store (upsert) and the one-second wait starts; an upload
\* it refuses starts the two-second wait when attempts are left, and after
\* the last attempt uploadWithRetry throws: the Promise.all of
\* processAndStoreCSV rejects and the call throws in that turn, whatever the
\* other uploadWithRetry is at, which goes on.
UploadAnswered(x) ==
    /\ uploads[x].at = "upload"
    /\ IF AnswerOf(x, uploads[x].i)
       THEN /\ blobs' = BlobsAfter([NothingUploaded EXCEPT ![x] = Blob(UploadData(x))])
            /\ uploads' = [uploads EXCEPT ![x].at = "stored"]
            /\ result' = result
       ELSE /\ blobs' = blobs
            /\ IF uploads[x].i < UPLOAD_ATTEMPTS
               THEN /\ uploads' = [uploads EXCEPT ![x].at = "retry"]
                    /\ result' = result
               ELSE /\ uploads' = [uploads EXCEPT ![x].at = "thrown"]
                    /\ result' =
                          IF result # Pending THEN result
                          ELSE IF invoked.fn = "uploadWithRetry"
                          THEN [returned |-> TRUE, ok |-> FALSE, attempts |-> uploads[x].i]
                          ELSE Thrown(PlainError("Failed to upload file after 3 attempts"))
    /\ UNCHANGED <<variant, fileData, thread, threads, progress, credits0, params, users, files, pc, user, err,
                   emailsToProcess, fullRecords, processedRows, stats, wstate, wresults,
                   pending, blobReads, failed, input, attemptsMade, arrival, invoked>>

\* a wait of uploadWithRetry x is over: after a refused upload the next
\* attempt is made; after an accepted one uploadWithRetry returns, and when
\* that is the last of the Promise.all, processAndStoreCSV returns
UploadWaitOver(x) ==
    /\ uploads[x].at \in {"retry", "stored"}
    /\ uploads' = [uploads EXCEPT ![x] =
                     IF @.at = "retry" THEN [at |-> "upload", i |-> @.i + 1]
                     ELSE [at |-> "returned", i |-> @.i]]
    /\ result' =
          IF result # Pending \/ uploads[x].at = "retry" THEN result
          ELSE IF invoked.fn = "uploadWithRetry"
          THEN [returned |-> TRUE, ok |-> TRUE, attempts |-> uploads[x].i]
          ELSE IF \A y \in {"full", "emails"} : uploads'[y].at = "returned"
          THEN processAndStoreCSV(invoked.table, invoked.n, invoked.removeEmptyEmails)
          ELSE result
    /\ UNCHANGED <<variant, fileData, thread, threads, progress, credits0, params, users, files, blobs, pc, user, err,
                   emailsToProcess, fullRecords, processedRows, stats, wstate, wresults,
                   pending, blobReads, failed, input, attemptsMade, arrival, invoked>>

\* the upload of the augmented file to uploads/<filename>, replacing it
CallUploadResult ==
    /\ invoked.fn = "uploadResult"
    /\ result = Pending
    /\ result' = [returned |-> TRUE, ok |-> uploadResult(invoked.answers).ok,
                  attempts |-> uploadResult(invoked.answers).attempts]
    /\ blobs' = BlobsAfter([NothingUploaded EXCEPT
                    !.file = IF uploadResult(invoked.answers).ok
                             THEN Blob(invoked.table) ELSE NoBlob])
    /\ UNCHANGED <<variant, fileData, uploads, thread, threads, progress, credits0, params, users, files, pc, user, err,
                   emailsToProcess, fullRecords, processedRows, stats, wstate, wresults,
                   pending, blobReads, failed, input, attemptsMade, arrival, invoked>>

\* validateEmail on an address of any kind, from any retry count it can have
\* been called with
ValidateCalls ==
    {[fn |-> "validateEmail", table |-> <<email>>, n |-> retries, answers |-> <<>>] :
        email \in FullPool \cup { <<"s">> }, retries \in 0..MAX_RETRIES}

CallValidateEmail ==
    /\ invoked.fn = "validateEmail"
    /\ result = Pending
    /\ result' = [returned |-> TRUE,
                  outcome |-> validateEmail(invoked.table[1], invoked.n),
                  calls |-> NetworkCalls(invoked.table[1], invoked.n),
                  delays |-> RetryDelays(invoked.table[1], invoked.n)]
    /\ UNCHANGED <<variant, fileData, uploads, thread, threads, progress, credits0, params, users, files, blobs, pc, user, err,
                   emailsToProcess, fullRecords, processedRows, stats, wstate, wresults,
                   pending, blobReads, failed, input, attemptsMade, arrival, invoked>>

\* address fields that differ in letter case or in blanks only, empty ones,
\* and null in capitals
PreviewPool == { <<"a">>, <<"A">>, <<" ", "a">>, <<"b">>, <<>>, <<"N", "u", "l", "l">> }

\* address fields in letters beyond the Latin ones: a pair of one letter in
\* its two cases, and a word that ends in a sigma, in capitals, in small
\* letters with the final sigma and with the medial one
LetterPool == { <<"Ᲊ">>, <<"ᲊ">>, <<"Α", "Σ">>, <<"α", "ς">>, <<"α", "σ">> }

\* the tables previewCSV is called with: any addresses under Header, some
\* with an empty line at the end (a text that ends in two line breaks), the
\* tables with rows of other lengths, and the empty file
PreviewTables ==
    {TableOf(a) : a \in SeqsUpTo(PreviewPool, MaxPreviewRows)}
        \cup {TableOf(a) : a \in SeqsUpTo(LetterPool, 2)}
        \cup {Append(TableOf(a), <<>>) : a \in SeqsUpTo(PreviewPool, 1)}
        \cup UnitTables
        \cup {<<>>}

PreviewCalls ==
    {[fn |-> "previewCSV", table |-> table, n |-> index, answers |-> <<>>, rev |-> rev] :
        table \in PreviewTables, index \in 0..Len(Header), rev \in {1, 2}}

\* the records the pipeline of previewCSV parses: the first revision skips
\* empty lines, the second keeps them
PreviewRecords(rev, table) ==
    IF rev = 1 THEN ParseCsv(table) ELSE ParseCsvKeepingEmptyLines(table)

\* an address compared as it is written
PreviewKeyExact(value) == Trim(value)

\* the address as previewCSV tests and stores it: trimmed, in lower case
PreviewKey(value) == ToLowerCase(Trim(value))

ZeroPreview ==
    [totalEmails |-> 0, totalRows |-> 0, totalEmptyEmails |-> 0, totalDuplicateEmails |-> 0]

\* processRow of previewCSV over the records, header first; `failed` once a
\* record has no field at the index
PreviewRows(rev, records, emailColumnIndex) ==
    LET F[k \in 0..Len(records)] ==
            IF k = 0 THEN [stats |-> ZeroPreview, emailSet |-> {}, failed |-> FALSE]
            ELSE LET prev == F[k - 1]
                     chunk == records[k]
                     email == PreviewKey(FieldAt(chunk, emailColumnIndex))
                     counted == [prev EXCEPT !.stats.totalRows = @ + 1]
                 IN  IF prev.failed THEN prev
                     ELSE IF k = 1
                     THEN IF rev = 2 /\ Len(chunk) <= emailColumnIndex
                          THEN [counted EXCEPT !.failed = TRUE]
                          ELSE counted
                     ELSE IF Len(chunk) <= emailColumnIndex
                     THEN [(IF rev = 2 THEN counted ELSE prev) EXCEPT !.failed = TRUE]
                     ELSE IF email = <<>> \/ email = S_null \/ email = S_undefined
                     THEN [counted EXCEPT !.stats.totalEmptyEmails = @ + 1]
                     ELSE IF email \in prev.emailSet
                     THEN [counted EXCEPT !.stats.totalDuplicateEmails = @ + 1]
                     ELSE [counted EXCEPT !.stats.totalEmails = @ + 1,
                                          !.emailSet = @ \cup {email}]
    IN  F[Len(records)]

\* previewCSV of either revision: validateEmailColumn on the header, then the
\* pipeline over all records; the second revision takes the header off
\* totalRows at the end.  On a file without a record validateEmailColumn never
\* settles, and previewCSV neither returns nor throws.
previewCSV(rev, table, emailColumnIndex) ==
    LET validated == ParseCsv(table)
        records == PreviewRecords(rev, table)
        rows == PreviewRows(rev, records, emailColumnIndex)
    IN  IF validated = <<>> THEN Pending
        ELSE IF \/ ~ProcessorAcceptsColumn(validated[1], emailColumnIndex)
           \/ InvalidRecordLength(validated)
           \/ InvalidRecordLength(records)
           \/ rows.failed
        THEN [returned |-> TRUE, ok |-> FALSE, stats |-> ZeroPreview]
        ELSE [returned |-> TRUE, ok |-> TRUE,
              stats |-> IF rev = 1 THEN rows.stats
                        ELSE [rows.stats EXCEPT !.totalRows = @ - 1]]

CallPreviewCSV ==
    /\ invoked.fn = "previewCSV"
    /\ result = Pending
    /\ result' = previewCSV(invoked.rev, invoked.table, invoked.n)
    /\ UNCHANGED <<variant, fileData, uploads, thread, threads, progress, credits0, params, users, files, blobs, pc, user, err,
                   emailsToProcess, fullRecords, processedRows, stats, wstate, wresults,
                   pending, blobReads, failed, input, attemptsMade, arrival, invoked>>

CallSplitEmailsIntoChunks ==
    /\ invoked.fn = "splitEmailsIntoChunks"
    /\ result = Pending
    /\ result' = [returned |-> TRUE, chunks |-> splitEmailsIntoChunks(invoked.table, invoked.n)]
    /\ UNCHANGED <<variant, fileData, uploads, thread, threads, progress, credits0, params, users, files, blobs, pc, user, err,
                   emailsToProcess, fullRecords, processedRows, stats, wstate, wresults,
                   pending, blobReads, failed, input, attemptsMade, arrival, invoked>>

CallValidateEmailColumn ==
    /\ invoked.fn = "validateEmailColumn"
    /\ result = Pending
    /\ result' = [returned |-> TRUE,
                  error |-> validateEmailColumn(invoked.table, invoked.n),
                  suggested |-> potentialEmailColumns(invoked.table)]
    /\ UNCHANGED <<variant, fileData, uploads, thread, threads, progress, credits0, params, users, files, blobs, pc, user, err,
                   emailsToProcess, fullRecords, processedRows, stats, wstate, wresults,
                   pending, blobReads, failed, input, attemptsMade, arrival, invoked>>

CallValidateColumnIndex ==
    /\ invoked.fn = "validateColumnIndex"
    /\ result = Pending
    /\ result' = [returned |-> TRUE, error |-> validateColumnIndex(invoked.n)]
    /\ UNCHANGED <<variant, fileData, uploads, thread, threads, progress, credits0, params, users, files, blobs, pc, user, err,
                   emailsToProcess, fullRecords, processedRows, stats, wstate, wresults,
                   pending, blobReads, failed, input, attemptsMade, arrival, invoked>>

UnitCalls == SplitCalls \cup ColumnCalls \cup ColumnIndexCalls \cup ProcessCalls \cup UploadCalls \cup ValidateCalls
                \cup PreviewCalls

InitUnit ==
    /\ invoked \in UnitCalls
    /\ result = Pending
    /\ variant = "single"
    /\ credits0 = 0
    /\ users = [u \in {UserEmail} |-> [user_id |-> "uid", credits |-> credits0]]
    /\ params = [r \in Runs |-> IdleParams]
    /\ input = [r \in Runs |-> <<>>]
    /\ blobs = [p \in Paths |-> NoBlob]
    /\ pc = [r \in Runs |-> "idle"]
    /\ attemptsMade = [r \in Runs |-> 0]
    /\ files = <<>>
    /\ InitLocals

NextUnit ==
    \/ CallSplitEmailsIntoChunks
    \/ CallValidateEmailColumn
    \/ CallValidateColumnIndex
    \/ CallProcessAndStoreCSV
    \/ CallUploadWithRetry
    \/ \E x \in {"full", "emails"} : UploadAnswered(x)
    \/ \E x \in {"full", "emails"} : UploadWaitOver(x)
    \/ CallUploadResult
    \/ CallValidateEmail
    \/ CallPreviewCSV

SpecUnit == InitUnit /\ [][NextUnit]_vars

(***************************************************************************)
(* One worker thread, call by call: processEmails starts a validateEmail   *)
(* for every address of workerData.emails in one go (emails.map), each of  *)
(* which is then at its axios.get, waiting out a retry delay, or resolved. *)
(***************************************************************************)
WorkerCalls ==
    {[fn |-> "processEmails", table |-> emails, n |-> 0, answers |-> <<>>] :
        emails \in SeqsUpTo({ <<"a">>, <<"s">>, <<"t">> }, MaxChunk)}

InitWorker ==
    /\ invoked \in WorkerCalls
    /\ result = Pending
    /\ variant = "single"
    /\ credits0 = 0
    /\ users = [u \in {UserEmail} |-> [user_id |-> "uid", credits |-> credits0]]
    /\ params = [r \in Runs |-> IdleParams]
    /\ input = [r \in Runs |-> <<>>]
    /\ blobs = [p \in Paths |-> NoBlob]
    /\ pc = [r \in Runs |-> "idle"]
    /\ attemptsMade = [r \in Runs |-> 0]
    /\ files = <<>>
    /\ InitLocals

\* a thread once processEmails(workerData.emails) has run up to its await:
\* emails.map((email) => validateEmail(email)) has taken every validateEmail
\* up to its first await, the axios.get
ThreadStarted(emails) ==
    [started |-> TRUE,
     emails |-> [i \in 1..Len(emails) |-> [at |-> "calling", retries |-> 0]],
     order |-> <<>>]

\* the thread once the axios.get of its i-th validateEmail has settled: with
\* a response, the promise resolves; with an error, the retry delay starts if
\* retries are left, else the promise resolves with the synthetic outcome.
\* `order` keeps the order in which the promises resolved.
ThreadAfterAxios(t, emails, i) ==
    LET retry == TransportFails(emails[i], t.emails[i].retries)
                    /\ t.emails[i].retries < MAX_RETRIES
    IN  [t EXCEPT !.emails[i].at = IF retry THEN "waiting" ELSE "resolved",
                  !.order = IF retry THEN @ ELSE Append(@, i)]

\* the thread once the delay of its i-th validateEmail is over:
\* return validateEmail(email, retries + 1)
ThreadAfterDelay(t, i) ==
    [t EXCEPT !.emails[i] = [at |-> "calling", retries |-> @.retries + 1]]

\* every promise of emails.map has resolved: Promise.all resolves, and
\* processEmails posts in the same turn of the thread's event loop
AllResolved(t) ==
    t.started /\ \A i \in 1..Len(t.emails) : t.emails[i].at = "resolved"

\* what a Promise.all that resolved with the values in the order the
\* promises resolved would post
ThreadResultsBySettlement(t, emails) ==
    [k \in 1..Len(t.order) |-> validateEmail(emails[t.order[k]], t.emails[t.order[k]].retries)]

\* what the thread posts: the values of Promise.all, in the order of the chunk
ThreadResults(t, emails) ==
    [i \in 1..Len(emails) |-> validateEmail(emails[i], t.emails[i].retries)]

\* parentPort.postMessage(results), once the thread is through
PostedBy(t, emails, current) ==
    IF AllResolved(t)
    THEN [returned |-> TRUE, results |-> ThreadResults(t, emails)]
    ELSE current

\* the worker script runs processEmails(workerData.emails); on an empty chunk
\* Promise.all([]) resolves at once and the thread posts in this same turn
StartProcessEmails ==
    /\ invoked.fn = "processEmails"
    /\ ~thread.started
    /\ thread' = ThreadStarted(invoked.table)
    /\ result' = PostedBy(thread', invoked.table, result)
    /\ UNCHANGED <<variant, fileData, uploads, threads, progress, credits0, params, users, files, blobs, pc, user, err,
                   emailsToProcess, fullRecords, processedRows, stats, wstate, wresults,
                   pending, blobReads, failed, input, attemptsMade, arrival, invoked>>

\* the axios.get of the i-th validateEmail settles; when that resolves the
\* last promise, the thread posts in the same turn
AxiosSettles(i) ==
    /\ thread.started
    /\ i \in 1..Len(thread.emails)
    /\ thread.emails[i].at = "calling"
    /\ thread' = ThreadAfterAxios(thread, invoked.table, i)
    /\ result' = PostedBy(thread', invoked.table, result)
    /\ UNCHANGED <<variant, fileData, uploads, threads, progress, credits0, params, users, files, blobs, pc, user, err,
                   emailsToProcess, fullRecords, processedRows, stats, wstate, wresults,
                   pending, blobReads, failed, input, attemptsMade, arrival, invoked>>

\* the delay is over: return validateEmail(email, retries + 1)
DelayElapses(i) ==
    /\ thread.started
    /\ i \in 1..Len(thread.emails)
    /\ thread.emails[i].at = "waiting"
    /\ thread' = ThreadAfterDelay(thread, i)
    /\ UNCHANGED <<variant, fileData, uploads, threads, progress, credits0, params, users, files, blobs, pc, user, err,
                   emailsToProcess, fullRecords, processedRows, stats, wstate, wresults,
                   pending, blobReads, failed, input, attemptsMade, arrival, invoked, result>>

NextWorker ==
    \/ StartProcessEmails
    \/ \E i \in 1..MaxChunk : AxiosSettles(i)
    \/ \E i \in 1..MaxChunk : DelayElapses(i)

SpecWorker == InitWorker /\ [][NextWorker]_vars

(***************************************************************************)
(* One run with its worker threads followed call by call: the calls inside *)
(* a worker settle in any order, the workers post in any order, and the    *)
(* main thread handles each message when it arrives.                       *)
(***************************************************************************)
\* the run that is followed
OrderRun == 1

\* its files: one with a chunk of two addresses that are answered
\* differently, the second after two failed calls, and one that leaves two
\* workers without an address
OrderFiles ==
    {TableOf(<< <<"a">>, <<"b">>, <<"c">>, <<"a">>, <<"s">> >>),
     TableOf(<< <<"b">>, <<"a">> >>)}

InitOrder ==
    /\ variant \in {"single", "split"}
    /\ credits0 = MaxCredits
    /\ users = [u \in {UserEmail} |-> [user_id |-> "uid", credits |-> credits0]]
    /\ params = [r \in Runs |-> IdleParams]
    /\ \E table \in OrderFiles :
          /\ input = [r \in Runs |->
                        IF r = OrderRun
                        THEN SubmittedFile(variant, table, params[OrderRun].emailColumnIndex, FALSE)
                        ELSE <<>>]
          /\ blobs = [p \in Paths |->
                        IF p[1] = OrderRun
                        THEN BlobsFor(OrderRun, variant, table, params[OrderRun].emailColumnIndex, FALSE)[p]
                        ELSE NoBlob]
    /\ pc = [r \in Runs |-> IF r = OrderRun THEN "submit" ELSE "idle"]
    /\ attemptsMade = [r \in Runs |-> 0]
    /\ files = <<>>
    /\ invoked = NoCall
    /\ result = Pending
    /\ InitLocals

\* the script of worker w starts once the worker has been created
ThreadStarts(w) ==
    /\ wstate[OrderRun][w] = "running"
    /\ ~threads[w].started
    /\ threads' = [threads EXCEPT ![w] = ThreadStarted(ChunkOf(OrderRun, w))]
    /\ UNCHANGED <<variant, fileData, uploads, thread, progress, credits0, params, users, files, blobs, pc, user, err,
                   emailsToProcess, fullRecords, processedRows, stats, wstate, wresults,
                   pending, blobReads, failed, input, attemptsMade, arrival, invoked, result>>

ThreadAxiosSettles(w, i) ==
    /\ wstate[OrderRun][w] = "running"
    /\ threads[w].started
    /\ i \in 1..Len(threads[w].emails)
    /\ threads[w].emails[i].at = "calling"
    /\ threads' = [threads EXCEPT ![w] = ThreadAfterAxios(@, ChunkOf(OrderRun, w), i)]
    /\ UNCHANGED <<variant, fileData, uploads, thread, progress, credits0, params, users, files, blobs, pc, user, err,
                   emailsToProcess, fullRecords, processedRows, stats, wstate, wresults,
                   pending, blobReads, failed, input, attemptsMade, arrival, invoked, result>>

ThreadDelayElapses(w, i) ==
    /\ wstate[OrderRun][w] = "running"
    /\ threads[w].started
    /\ i \in 1..Len(threads[w].emails)
    /\ threads[w].emails[i].at = "waiting"
    /\ threads' = [threads EXCEPT ![w] = ThreadAfterDelay(@, i)]
    /\ UNCHANGED <<variant, fileData, uploads, thread, progress, credits0, params, users, files, blobs, pc, user, err,
                   emailsToProcess, fullRecords, processedRows, stats, wstate, wresults,
                   pending, blobReads, failed, input, attemptsMade, arrival, invoked, result>>

\* the message worker w has posted reaches the main thread
ThreadMessage(w) ==
    /\ AllResolved(threads[w])
    /\ WorkerMessageWith(OrderRun, w, ThreadResults(threads[w], ChunkOf(OrderRun, w)))

NextOrder ==
    \/ NextRequests
    \/ NextRunsButMessage
    \/ \E w \in Workers : ThreadStarts(w)
    \/ \E w \in Workers, i \in 1..MaxChunk : ThreadAxiosSettles(w, i)
    \/ \E w \in Workers, i \in 1..MaxChunk : ThreadDelayElapses(w, i)
    \/ \E w \in Workers : ThreadMessage(w)

SpecOrder == InitOrder /\ [][NextOrder]_vars

(***************************************************************************)
(* Properties.                                                             *)
(***************************************************************************)
Balance == users[UserEmail].credits
\* validateEmailsInCsv has returned to handleValidation
Returned(r) == pc[r] \in {"returned", "done"}

Ended(r) == Returned(r) \/ pc[r] = "thrown"
WorkersCreated(r) == \E w \in Workers : wstate[r][w] # "none"
DataRows(r) == Len(ParseCsv(input[r])) - 1
HasCompletedRecord(r) ==
    \E i \in 1..Len(files) : files[i].file_id = r /\ files[i].status = "Completed"

RECURSIVE SumOver(_, _)
SumOver(S, f) ==
    IF S = {} THEN 0
    ELSE LET x == CHOOSE y \in S : TRUE IN f[x] + SumOver(S \ {x}, f)

\* C1: in the single-file variant, once the results are merged, every row that
\* went to a worker is written with the status the verifier returned for that
\* row's own address.
C1_RowStatusIsOwnOutcome ==
    \A r \in Runs :
        (variant = "single" /\ pc[r] \in {"upload", "settle", "returned", "done"}) =>
            \A k \in 1..Len(emailsToProcess[r]) :
                LET item == emailsToProcess[r][k]
                    own == validateEmail(item.email, 0)
                IN  \E i \in 1..Len(processedRows[r]) :
                        processedRows[r][i] =
                            Splice(item.record, params[r].emailColumnIndex + 1, own.status)

\* C2: two runs of one user are never both past verifyUserCredits, neither
\* having debited yet, with a balance that covers each of them but not both.
C2_NoDoubleAuthorization ==
    ~ \E r1, r2 \in Runs :
        /\ r1 # r2
        /\ user[r1].found /\ user[r2].found
        /\ pc[r1] \in {"download", "parse", "await", "upload"}
        /\ pc[r2] \in {"download", "parse", "await", "upload"}
        /\ Balance >= params[r1].totalEmails
        /\ Balance >= params[r2].totalEmails
        /\ Balance < params[r1].totalEmails + params[r2].totalEmails

\* C3: when every run has ended, the balance is the initial balance minus the
\* totalEmails of the runs that ended in Completed (stated for the runs none of
\* whose store calls came back with an error).
C3_CompletedRunsDebitExactly ==
    ((\A r \in Runs : Ended(r) /\ failed[r] = {})) =>
        Balance = credits0 - SumOver({r \in Runs : Returned(r)},
                                     [r \in Runs |-> params[r].totalEmails])

\* C4: a run that has ended has its Completed record in the files table
\* exactly if its credits are deducted.
C4_SettlementAllOrNothing ==
    \A r \in Runs : Ended(r) => (HasCompletedRecord(r) <=> Balance # credits0)

\* C5: a run that has ended by throwing leaves the balance as it was when the
\* run started.
C5_ThrownRunKeepsBalance ==
    \A r \in Runs : pc[r] = "thrown" => Balance = credits0

\* a run that threw at the upload, after all the verification work
C5_Witness ==
    \E r \in Runs : pc[r] = "thrown" /\ "upload" \in failed[r] /\ user[r].found

\* C6: the stored balance is never negative.
C6_BalanceNonNegative == \A u \in DOMAIN users : users[u].credits >= 0

\* both runs completed and debited, on a balance that did not cover both
C6_Witness ==
    /\ \A r \in Runs : Returned(r) /\ "update" \notin failed[r]
    /\ credits0 < SumOver(Runs, [r \in Runs |-> params[r].totalEmails])

\* C7: the stats of every Completed record satisfy
\* valid + invalid + unverifiable = processed.
C7_StatsAddUp ==
    \A i \in 1..Len(files) :
        files[i].status = "Completed" =>
            files[i].stats.valid + files[i].stats.invalid + files[i].stats.unverifiable
                = files[i].stats.processed

\* C8: at completion stats.processed is the number of data rows of the input.
C8_ProcessedEqualsRows ==
    \A r \in Runs : Returned(r) => stats[r].processed = DataRows(r)

\* C9: a run downloads a blob or creates a worker only after verifyUserCredits
\* has returned a user whose balance covers totalEmails; a run whose
\* verifyUserCredits threw has downloaded nothing and created no worker.
C9_AuthorizationFirst ==
    \A r \in Runs :
        /\ (blobReads[r] > 0 \/ WorkersCreated(r)) =>
              (user[r].found /\ user[r].credits >= params[r].totalEmails)
        /\ err[r].message \in {"User not found", "Insufficient credits"} =>
              (blobReads[r] = 0 /\ ~WorkersCreated(r))

\* a run stopped by insufficient credits
C9_Witness ==
    \E r \in Runs : pc[r] = "thrown" /\ err[r].message = "Insufficient credits"

\* C10: the number of addresses handed to the workers never exceeds the
\* amount verifyUserCredits checked against the balance.
C10_DispatchedWithinAuthorized ==
    \A r \in Runs : WorkersCreated(r) => Len(EmailsOnly(r)) <= params[r].totalEmails

\* the service fails on every call validateEmail makes for the address
NeverAnswered(email) == \A attempt \in 0..MAX_RETRIES : TransportFails(email, attempt)

\* C11: every worker that has posted delivered one outcome per address of its
\* chunk, the synthetic invalid/error/error outcome for an address the service
\* never answered; a run all of whose workers posted has not failed at the
\* workers.
C11_ValidateEmailAlwaysResolves ==
    \A r \in Runs :
        /\ \A w \in Workers :
              wstate[r][w] = "resolved" =>
                  /\ Len(wresults[r][w]) = Len(ChunkOf(r, w))
                  /\ \A i \in 1..Len(ChunkOf(r, w)) :
                        /\ wresults[r][w][i].email = ChunkOf(r, w)[i]
                        /\ NeverAnswered(ChunkOf(r, w)[i]) =>
                              wresults[r][w][i] = SyntheticOutcome(ChunkOf(r, w)[i])
        /\ (\A w \in Workers : wstate[r][w] = "resolved") =>
              err[r] # PlainError("Worker failed")

\* a run that completed although the service never answered for one address
C11_Witness ==
    \E r \in Runs :
        /\ Returned(r)
        /\ HasCompletedRecord(r)
        /\ \E i \in 1..Len(EmailsOnly(r)) : NeverAnswered(EmailsOnly(r)[i])

\* C12: validateEmail issues at most 3 calls to the verification service for
\* one address.
C12_AtMostThreeAttempts ==
    \A r \in Runs : \A w \in Workers :
        wstate[r][w] = "resolved" =>
            \A i \in 1..Len(ChunkOf(r, w)) : NetworkCalls(ChunkOf(r, w)[i], 0) <= 3

\* C13: no address that is empty, blank, or "null"/"undefined" in any letter
\* case is handed to a worker, in either variant.
C13_ShortCircuitedNeverDispatched ==
    \A r \in Runs :
        WorkersCreated(r) =>
            \A i \in 1..Len(EmailsOnly(r)) : ~IsShortCircuited(EmailsOnly(r)[i])

\* the records of the files table written for the job of run r, oldest first
RecordsOf(r) == SelectSeq(files, LAMBDA rec : rec.file_id = r)

\* the status a query for the job finds: that of the newest record
LatestStatus(r) ==
    IF RecordsOf(r) = <<>> THEN "none" ELSE RecordsOf(r)[Len(RecordsOf(r))].status

Terminal == {"Completed", "Error"}

\* the controller's insert for the job succeeded
InQueueWritten(r) == \E k \in 1..Len(RecordsOf(r)) : RecordsOf(r)[k].status = "In Queue"

\* the blob at uploads/<filename> when the job was submitted
OriginalBlob(r) ==
    BlobsFor(r, variant, input[r], params[r].emailColumnIndex, FALSE)[ResultPath(r)]

\* C14: a run that threw because a worker failed has written no output file,
\* no Completed record and no debit, and its job's record has status Error
\* (stated for the jobs none of whose record inserts came back with an error).
C14_WorkerFailureFailsRun ==
    \A r \in Runs :
        (/\ pc[r] = "thrown"
         /\ InQueueWritten(r)
         /\ \E w \in Workers : wstate[r][w] = "rejected"
         /\ "record" \notin failed[r]) =>
            /\ blobs[ResultPath(r)] = OriginalBlob(r)
            /\ ~HasCompletedRecord(r)
            /\ Balance = credits0
            /\ LatestStatus(r) = "Error"

\* C15: every Completed or Error record of a job is preceded by a Validating
\* record of that job, itself preceded by the In Queue record (stated for the
\* jobs whose In Queue insert succeeded).
C15_ValidatingBeforeTerminal ==
    \A r \in Runs :
        \A k \in 1..Len(RecordsOf(r)) :
            (InQueueWritten(r) /\ RecordsOf(r)[k].status \in Terminal) =>
                \E i, j \in 1..Len(RecordsOf(r)) :
                    /\ i < j /\ j < k
                    /\ RecordsOf(r)[i].status = "In Queue"
                    /\ RecordsOf(r)[j].status = "Validating"

\* C16: once a Completed or Error status is written for a job, no later write
\* for that job carries a different status, across the queue's deliveries.
C16_TerminalAbsorbing ==
    \A r \in Runs :
        \A i, j \in 1..Len(RecordsOf(r)) :
            (i < j /\ RecordsOf(r)[i].status \in Terminal) =>
                RecordsOf(r)[j].status = RecordsOf(r)[i].status

\* C17: from the enqueue on, the files table holds exactly one record for the
\* job (stated for the jobs whose In Queue insert succeeded).
C17_OneRecordPerJob ==
    \A r \in Runs :
        InQueueWritten(r) => Len(RecordsOf(r)) = 1

\* C18: a run that has thrown, whatever the cause, has an Error record carrying
\* the message of the error thrown, unless a record insert of the job came
\* back with an error; its job is not left at In Queue.
C18_ThrownRunRecordedAsError ==
    \A r \in Runs :
        (pc[r] = "thrown" /\ InQueueWritten(r) /\ "record" \notin failed[r]) =>
            /\ \E k \in 1..Len(RecordsOf(r)) :
                  /\ RecordsOf(r)[k].status = "Error"
                  /\ RecordsOf(r)[k].stats = [error |-> err[r].message]
            /\ LatestStatus(r) # "In Queue"

\* the error that made the run of the single-file variant enter its catch
\* block, read off the call that failed
OriginalError(r) ==
    IF "download" \in failed[r] \/ ~blobs[ResultPath(r)].exists
    THEN PlainError("Failed to fetch file")
    ELSE IF "upload" \in failed[r] THEN PlainError("Failed to update file")
    ELSE IF \E w \in Workers : wstate[r][w] = "rejected" THEN PlainError("Worker failed")
    ELSE NoError

\* C19: a run whose insert of the Error record came back with an error has
\* thrown the error that made it fail, not an error of the insert.
C19_OriginalErrorSurfaced ==
    \A r \in Runs :
        (pc[r] = "thrown" /\ "record" \in failed[r]) =>
            (err[r] # NoError /\ err[r] = OriginalError(r))

\* a run whose upload failed and whose Error insert failed as well
C19_Witness ==
    \E r \in Runs :
        pc[r] = "thrown" /\ "record" \in failed[r] /\ "upload" \in failed[r]

\* C20: once a run has written its Completed record, no later step of that
\* run changes the users table, the files table or the blob store.
C20_CompletedIsLastWrite ==
    [][\A r \in Runs :
          (pc[r] = "settle" /\ HasCompletedRecord(r)) =>
              (users' = users /\ files' = files /\ blobs' = blobs)]_vars

\* the request of run r was accepted: the controller went on to the queue
Accepted(r) == pc[r] \notin {"idle", "submit", "insert", "rejected"}

\* C21: once a request is accepted, the files table holds a record for its
\* fileId, at the queue.add and at every later moment.
C21_RecordFromAcceptanceOn ==
    \A r \in Runs : Accepted(r) => RecordsOf(r) # <<>>

\* the first field of every data row of a table, in table order
RowIds(rows) == [k \in 1..(Len(rows) - 1) |-> rows[k + 1][1]]

\* the position of the data row with that first field in the input of run r
InputPosition(r, id) ==
    CHOOSE k \in 1..DataRows(r) : RowIds(ParseCsv(input[r]))[k] = id

\* C22: the data rows of the output are in the relative order their rows have
\* in the input.
C22_RowOrderPreserved ==
    \A r \in Runs :
        pc[r] \in {"upload", "settle", "returned", "done"} =>
            \A i, j \in 1..(Len(processedRows[r]) - 1) :
                i < j => InputPosition(r, RowIds(processedRows[r])[i])
                            < InputPosition(r, RowIds(processedRows[r])[j])

\* the output and the stats of run r as its input alone determines them: the
\* read loop, every chunk verified, the results gathered chunk after chunk
OrderFreeOutcome(r) ==
    LET results == Flat([w \in Workers |-> processEmails(ChunkOf(r, w))])
    IN  IF variant = "single"
        THEN MergeSingle(RowLoop(ParseCsv(input[r]), params[r].emailColumnIndex),
                         results, params[r].emailColumnIndex)
        ELSE MergeSplit(fullRecords[r], results, params[r].emailColumnIndex)

\* C23: whatever the order in which the calls inside the workers settled and
\* the order in which the workers posted, the output rows and the stats of
\* the run are the ones its input determines.
C23_OutputIndependentOfCompletionOrder ==
    \A r \in Runs :
        pc[r] = "upload" =>
            /\ processedRows[r] = OrderFreeOutcome(r).processedRows
            /\ stats[r] = OrderFreeOutcome(r).stats

\* the workers posted in an order other than their creation order, two of
\* them with results that differ, and inside one worker the call for the
\* second address of the chunk settled before the call for the first, the two
\* with results that differ
C23_Witness ==
    /\ pc[OrderRun] = "upload"
    /\ \E i, j \in 1..Len(arrival[OrderRun]) :
          /\ i < j /\ arrival[OrderRun][i] > arrival[OrderRun][j]
          /\ wresults[OrderRun][arrival[OrderRun][i]] # <<>>
          /\ wresults[OrderRun][arrival[OrderRun][j]] # <<>>
          /\ wresults[OrderRun][arrival[OrderRun][i]][1].status
                # wresults[OrderRun][arrival[OrderRun][j]][1].status
    /\ \E w \in Workers :
          /\ Len(threads[w].order) = 2
          /\ threads[w].order[1] > threads[w].order[2]
          /\ wresults[OrderRun][w][1].status # wresults[OrderRun][w][2].status

\* a row of the output without the column(s) the merge inserted
StripInserted(row, emailColumnIndex) ==
    IF variant = "single"
    THEN WithoutIndex(row, emailColumnIndex + 1)
    ELSE WithoutIndex(WithoutIndex(row, emailColumnIndex + 1), emailColumnIndex)

\* the rows the merge received: the parsed input, or the parsed full extract
MergeInput(r) == IF variant = "single" THEN ParseCsv(input[r]) ELSE fullRecords[r]

\* C24: every row of the output, header included, without the inserted
\* column(s) is a row the merge received, and no received row is missing.
C24_MergeRoundTrip ==
    \A r \in Runs :
        pc[r] = "upload" =>
            /\ Len(processedRows[r]) = Len(MergeInput(r))
            /\ \A k \in 1..Len(processedRows[r]) :
                  \E j \in 1..Len(MergeInput(r)) :
                      StripInserted(processedRows[r][k], params[r].emailColumnIndex)
                          = MergeInput(r)[j]
            /\ \A j \in 1..Len(MergeInput(r)) :
                  \E k \in 1..Len(processedRows[r]) :
                      StripInserted(processedRows[r][k], params[r].emailColumnIndex)
                          = MergeInput(r)[j]

\* the status the source row's own address deserves: invalid without a call
\* if the address is short-circuited, the verifier's answer otherwise
OwnStatus(email) ==
    IF IsShortCircuited(email) THEN S_invalid ELSE validateEmail(Trim(email), 0).status

\* C26: in the split-file variant every output data row is the row of the full
\* extract with, at the address column, the address the e-mail extract holds
\* for that same row, followed by the status of that address.
C26_SplitRowsRejoinedWithOwnAddress ==
    \A r \in Runs :
        (variant = "split" /\ pc[r] = "upload") =>
            LET full == blobs[FullPath(r)].data
                emails == blobs[EmailsPath(r)].data
                col == params[r].emailColumnIndex
            IN  /\ Len(processedRows[r]) = Len(full)
                /\ \A k \in 2..Len(full) :
                      processedRows[r][k] =
                          Splice(Splice(full[k], col, Trim(emails[k][1])),
                                 col + 1, OwnStatus(emails[k][1]))

\* the 0-based list indices that are congruent to chunk i - 1 modulo n
IndicesOfChunk(len, n, i) == {j \in 0..(len - 1) : j % n = i - 1}

\* C25: chunk i of splitEmailsIntoChunks(emails, N) is the subsequence of the
\* list at the indices congruent to i modulo N, in list order; the chunks
\* cover the list and their sizes differ by at most one.
C25_RoundRobinChunks ==
    (invoked.fn = "splitEmailsIntoChunks" /\ result.returned) =>
        LET emails == invoked.table
            n == invoked.n
            chunks == result.chunks
        IN  /\ Len(chunks) = n
            /\ \A i \in 1..n :
                  /\ Len(chunks[i]) = Cardinality(IndicesOfChunk(Len(emails), n, i))
                  /\ \A m \in 1..Len(chunks[i]) :
                        chunks[i][m] = emails[(m - 1) * n + (i - 1) + 1]
            /\ \A i, j \in 1..n : Len(chunks[i]) - Len(chunks[j]) <= 1
            /\ Len(Flat(chunks)) = Len(emails)

\* a list longer than the number of chunks, split into more than one chunk
C25_Witness ==
    /\ invoked.fn = "splitEmailsIntoChunks" /\ result.returned
    /\ invoked.n > 1 /\ Len(invoked.table) > invoked.n
    /\ \E i, j \in 1..Len(invoked.table) : invoked.table[i] # invoked.table[j]

\* the header field at a 0-based index passes the name or the pattern heuristic
PassesHeuristic(headers, k) ==
    \/ Includes(ToLowerCase(headers[k + 1]), S_email)
    \/ containsEmailPattern(headers[k + 1])

\* C28: the column index is refused as invalid exactly when it is outside the
\* header, a negative one by validateColumnIndex before validateEmailColumn is
\* reached; inside the header it is refused as not an e-mail column exactly
\* when its header field passes neither heuristic, the error then listing the
\* indices of the fields that pass one; otherwise it is accepted.
C28_ColumnErrors ==
    /\ (invoked.fn = "validateColumnIndex" /\ result.returned) =>
            ((result.error = BadRequest("Invalid email column index")) <=> invoked.n < 0)
    /\ (invoked.fn = "validateEmailColumn" /\ result.returned) =>
            LET headers == invoked.table
                index == invoked.n
                inBounds == 0 <= index /\ index < Len(headers)
            IN  /\ (result.error = BadRequest("Invalid email column index")) <=> ~inBounds
                /\ (result.error = BadRequest("Column doesn't appear to contain emails"))
                      <=> (inBounds /\ ~PassesHeuristic(headers, index))
                /\ (result.error = NoError) <=> (inBounds /\ PassesHeuristic(headers, index))
                /\ result.suggested = {k \in 0..(Len(headers) - 1) : PassesHeuristic(headers, k)}

\* a column refused as not an e-mail column while another column would pass
C28_Witness ==
    /\ invoked.fn = "validateEmailColumn" /\ result.returned
    /\ result.error = BadRequest("Column doesn't appear to contain emails")
    /\ result.suggested # {}

\* the table of the call has a data row with a field count other than the header's
HasRaggedRow(table) ==
    \E k \in 2..Len(ParseCsv(table)) : Len(ParseCsv(table)[k]) # Len(ParseCsv(table)[1])

\* the store accepts every upload of the call at once
StoreUp == \A i \in 1..Len(invoked.answers) : invoked.answers[i]

\* C27: with the e-mail column named rightly and the store up, a call of
\* processAndStoreCSV on a table with a row whose field count differs from
\* the header's succeeds and returns the inconsistent-column warning; on a
\* table whose rows all match the header it returns no warning.
C27_InconsistentColumnsReported ==
    (/\ invoked.fn = "processAndStoreCSV" /\ invoked.rev = 1 /\ result.returned
     /\ invoked.n = 1 /\ StoreUp) =>
        IF HasRaggedRow(invoked.table) THEN result.ok /\ result.warning
        ELSE result.ok /\ ~result.warning

\* the answers of the store to the attempts the retry rule allows
RetryRuleOk(answers) == \E i \in 1..UPLOAD_ATTEMPTS : answers[i]

\* C29: an upload, of an extract or of the augmented file, succeeds exactly
\* when one of up to three attempts does, makes no attempt after a success,
\* and has made three when it is reported as failed.
C29_EveryUploadRetried ==
    (invoked.fn \in {"uploadWithRetry", "uploadResult"} /\ result.returned) =>
        /\ result.ok <=> RetryRuleOk(invoked.answers)
        /\ result.ok => (/\ invoked.answers[result.attempts]
                         /\ \A i \in 1..(result.attempts - 1) : ~invoked.answers[i])
        /\ ~result.ok => result.attempts = UPLOAD_ATTEMPTS

\* C30: a request for a file of a header row only, with the user's e-mail and
\* the index of the e-mail column, is not refused for its parameters, and the
\* run it starts counts nothing: every counter of its stats is 0 when it
\* has completed.
C30_HeaderOnlyFileCompletes ==
    \A r \in Runs :
        (/\ pc[r] \notin {"idle", "submit"}
         /\ DataRows(r) = 0
         /\ params[r].userEmail = UserEmail
         /\ params[r].emailColumnIndex = 1) =>
            /\ err[r] # BadRequest("User email and total emails are required")
            /\ Returned(r) => stats[r] = ZeroStats

\* the workers of the run have been created on fewer addresses than workers
ShortList(r) == WorkersCreated(r) /\ Len(EmailsOnly(r)) < MAX_WORKERS

\* C31: in a run with fewer addresses than workers, a worker given an empty
\* chunk posts an empty result, the run leaves the await as soon as all
\* workers have posted, the k-th result gathered is the verifier's outcome
\* for the k-th address, and (single-file variant) every row that went to a
\* worker is written with its own address's status.
C31_ShortListOwnOutcomes ==
    \A r \in Runs :
        ShortList(r) =>
            /\ \A w \in Workers :
                  (wstate[r][w] = "resolved" /\ ChunkOf(r, w) = <<>>) => wresults[r][w] = <<>>
            /\ (\A w \in Workers : wstate[r][w] = "resolved") =>
                  /\ pc[r] # "await"
                  /\ Flattened(wresults[r]) =
                        [k \in 1..Len(EmailsOnly(r)) |-> validateEmail(EmailsOnly(r)[k], 0)]
            /\ (variant = "single" /\ pc[r] \in {"upload", "settle", "returned", "done"}) =>
                  \A k \in 1..Len(emailsToProcess[r]) :
                      \E i \in 1..Len(processedRows[r]) :
                          processedRows[r][i] =
                              Splice(emailsToProcess[r][k].record, params[r].emailColumnIndex + 1,
                                     validateEmail(emailsToProcess[r][k].email, 0).status)

\* a completed run of two addresses with different outcomes, two chunks empty
C31_Witness ==
    \E r \in Runs :
        /\ ShortList(r) /\ Returned(r) /\ HasCompletedRecord(r)
        /\ Len(EmailsOnly(r)) = 2
        /\ validateEmail(EmailsOnly(r)[1], 0).status # validateEmail(EmailsOnly(r)[2], 0).status
        /\ \E w \in Workers : ChunkOf(r, w) = <<>> /\ wstate[r][w] = "resolved"

\* the errors a run throws for a fault of the request: column index out of
\* bounds, column not an e-mail column, user not found, insufficient credits
UserError(e) ==
    e \in {BadRequest("Invalid email column index"),
           BadRequest("Column doesn't appear to contain emails"),
           BadRequest("User not found"),
           BadRequest("Insufficient credits")}

\* C32: a job whose run has thrown a UserError has been delivered to
\* handleValidation once, and once only.
C32_UserErrorNeverRetried ==
    \A r \in Runs :
        (pc[r] = "thrown" /\ UserError(err[r])) => attemptsMade[r] <= 1

\* C33: a job's progress is 0 from the start of handleValidation until
\* validateEmailsInCsv has returned, 100 only once it has and the update
\* after it was accepted, and never 100 for a run that threw.
C33_ProgressZeroThenHundred ==
    \A r \in Runs :
        /\ progress[r] \in {0, 100}
        /\ progress[r] = 100 => (pc[r] = "done" /\ "progress" \notin failed[r])
        /\ pc[r] \in {"thrown", "catch", "returned"} => progress[r] = 0

\* a run that returned, with progress 100, its blob uploaded
C33_Witness ==
    \E r \in Runs : pc[r] = "done" /\ progress[r] = 100 /\ blobs[ResultPath(r)].exists

\* C34: the k-th wait of a validateEmail that started at retry count n is
\* min(2^(n + k - 1) * 1000, 5000) milliseconds; the waits of one address never
\* decrease and never exceed 5000 ms.
C34_BackoffDelays ==
    (invoked.fn = "validateEmail" /\ result.returned) =>
        /\ \A k \in 1..Len(result.delays) :
              /\ \/ /\ 2 ^ (invoked.n + k - 1) * 1000 <= 5000
                    /\ result.delays[k] = 2 ^ (invoked.n + k - 1) * 1000
                 \/ /\ 2 ^ (invoked.n + k - 1) * 1000 > 5000
                    /\ result.delays[k] = 5000
              /\ result.delays[k] <= 5000
        /\ \A j, k \in 1..Len(result.delays) : j < k => result.delays[j] <= result.delays[k]
        /\ Len(result.delays) = result.calls - 1

\* an address the service never answers, validated from retry count 0: it
\* waited before each of its MAX_RETRIES retries
C34_Witness ==
    /\ invoked.fn = "validateEmail" /\ result.returned
    /\ invoked.n = 0
    /\ Len(result.delays) = MAX_RETRIES
    /\ result.outcome = SyntheticOutcome(invoked.table[1])

\* the validateEmail calls of the worker thread that are at their axios.get
InFlight == {i \in 1..Len(thread.emails) : thread.emails[i].at = "calling"}

\* C35: a worker thread has at most one verification call in flight.
C35_OneCallPerWorker == Cardinality(InFlight) <= 1

\* the number of places of the list that hold the address
Occurrences(list, e) == Cardinality({i \in 1..Len(list) : list[i] = e})

\* the address column of the input file, trimmed, data rows only
InputAddresses(r) ==
    LET records == ParseCsv(input[r])
    IN  [k \in 1..(Len(records) - 1) |-> Trim(FieldAt(records[k + 1], params[r].emailColumnIndex))]

\* C36: once the workers of a run are created there is one per chunk; every
\* address of the file that is not short-circuited is in the chunks as many
\* times as it is in the file; a worker that has posted returned one outcome
\* per address of its chunk; and a run past its awaits has all its workers
\* resolved, none running anew.
C36_EachAddressOneWorkerOnce ==
    \A r \in Runs :
        WorkersCreated(r) =>
            LET chunks == [w \in Workers |-> ChunkOf(r, w)]
                handed == Flat(chunks)
                addresses == InputAddresses(r)
            IN  /\ \A w \in Workers : wstate[r][w] # "none"
                /\ \A e \in {addresses[k] : k \in 1..Len(addresses)} :
                      ~IsShortCircuited(e) => Occurrences(handed, e) = Occurrences(addresses, e)
                /\ \A w \in Workers :
                      wstate[r][w] = "resolved" =>
                          /\ Len(wresults[r][w]) = Len(chunks[w])
                          /\ \A i \in 1..Len(chunks[w]) : wresults[r][w][i].email = chunks[w][i]
                /\ pc[r] \in {"upload", "settle", "returned", "done"} =>
                      \A w \in Workers : wstate[r][w] = "resolved"

\* a completed run of more addresses than workers, one address twice in the file
C36_Witness ==
    \E r \in Runs :
        /\ Returned(r)
        /\ Len(EmailsOnly(r)) > MAX_WORKERS
        /\ \E e \in SmallPool : Occurrences(InputAddresses(r), e) >= 2

\* the blobs a delivery downloads
ReadPaths(r) ==
    IF variant = "single" THEN {ResultPath(r)} ELSE {FullPath(r), EmailsPath(r)}

\* a delivery after the first is about to download, and finds every blob it
\* reads as it was when the job was submitted
RetryReadsOriginal(r) ==
    (attemptsMade[r] >= 2 /\ pc[r] = "download") =>
        \A p \in ReadPaths(r) :
            blobs[p] = BlobsFor(r, variant, input[r], params[r].emailColumnIndex, FALSE)[p]

\* C37: the blob at uploads/<filename> is changed by no step of a run but the
\* one whose upload the store accepted, a run that got past that upload does
\* not throw, and a later delivery of the job reads the table as it was
\* submitted, without the inserted column.
C37_ThrownRunLeavesBlob ==
    [][\A r \in Runs :
          /\ blobs'[ResultPath(r)] # blobs[ResultPath(r)] =>
                (pc[r] = "upload" /\ pc'[r] = "settle")
          /\ pc[r] = "settle" => pc'[r] \in {"settle", "returned"}
          /\ RetryReadsOriginal(r)]_vars

\* the address fields of the data records of the call's table, trimmed and in
\* lower case
PreviewAddresses ==
    LET records == PreviewRecords(invoked.rev, invoked.table)
    IN  [k \in 1..(Len(records) - 1) |-> ToLowerCase(Trim(FieldAt(records[k + 1], invoked.n)))]

\* ... and the ones among them that are an address
IsAddress(email) == email # <<>> /\ email # S_null /\ email # S_undefined

\* C38: when previewCSV returns, totalEmails + totalEmptyEmails +
\* totalDuplicateEmails is the number of data records, which is totalRows less
\* the header in the first revision and totalRows in the second; totalEmails
\* is the number of distinct addresses compared in lower case after trimming,
\* and totalEmptyEmails the number of rows without one.
C38_PreviewBuckets ==
    (invoked.fn = "previewCSV" /\ result.returned /\ result.ok) =>
        LET st == result.stats
            addresses == PreviewAddresses
            dataRows == IF invoked.rev = 1 THEN st.totalRows - 1 ELSE st.totalRows
        IN  /\ st.totalEmails + st.totalEmptyEmails + st.totalDuplicateEmails = dataRows
            /\ dataRows = Len(addresses)
            /\ st.totalEmails =
                  Cardinality({addresses[k] : k \in {j \in 1..Len(addresses) : IsAddress(addresses[j])}})
            /\ st.totalEmptyEmails =
                  Cardinality({k \in 1..Len(addresses) : ~IsAddress(addresses[k])})

\* a preview that returned with an address counted once, a duplicate of it in
\* another letter case, and an empty one
C38_Witness ==
    /\ invoked.fn = "previewCSV" /\ result.returned /\ result.ok
    /\ result.stats.totalEmails = 1
    /\ result.stats.totalDuplicateEmails = 1
    /\ result.stats.totalEmptyEmails = 1
    /\ \E j, k \in 1..Len(PreviewAddresses) :
          /\ j # k
          /\ PreviewAddresses[j] = PreviewAddresses[k]
          /\ FieldAt(invoked.table[j + 1], invoked.n) # FieldAt(invoked.table[k + 1], invoked.n)

\* a request the controller has rejected at one of its own steps before the
\* insert: the queue that is not ready (isReady rejects), the column index,
\* the user e-mail and the total
RejectedByCheck(r) ==
    \/ "isReady" \in failed[r] /\ err[r] = PlainError("Redis connection lost")
    \/ err[r] = BadRequest("Email validation queue is not ready")
    \/ err[r] = BadRequest("Invalid email column index")
    \/ err[r] = BadRequest("User email and total emails are required")

\* C39: a request the controller has rejected for the queue that is not
\* ready, the column index, the user e-mail or the total has written no
\* record for its job and its job was never handed to the queue; the one
\* rejected request that is not of these is the request whose
\* emailQueue.add was refused, after the insert.
C39_RejectedRequestHasNoEffect ==
    \A r \in Runs :
        pc[r] = "rejected" =>
            /\ attemptsMade[r] = 0
            /\ blobs[ResultPath(r)] = OriginalBlob(r)
            /\ users[UserEmail].credits = credits0
            /\ RejectedByCheck(r) <=> "add" \notin failed[r]
            /\ RejectedByCheck(r) => (RecordsOf(r) = <<>> /\ files = <<>>)

\* a request rejected because the queue was not ready, and one rejected for
\* its missing user e-mail
C39_Witness ==
    \E r \in Runs :
        /\ pc[r] = "rejected"
        /\ \/ "isReady" \in failed[r] /\ params[r].userEmail # ""
           \/ failed[r] = {} /\ params[r].userEmail = ""
                /\ err[r] = BadRequest("User email and total emails are required")
        /\ files = <<>>

====
